---------------------------- MODULE Spec2Model ----------------------------
(***************************************************************************)
(* Live translation service (pwhiting/Translate).                          *)
(*                                                                         *)
(* Store-backed variant: the cloud functions join_meeting, process_audio   *)
(* and get_translations over one document store (meeting documents, the    *)
(* per-meeting sequence counter, the translation records).                 *)
(* Broker-backed variant: the translation worker's MessageBuffer.          *)
(***************************************************************************)
EXTENDS Integers, Sequences, FiniteSets, TLC

(***************************************************************************)
(* Bounds of the model.                                                    *)
(***************************************************************************)
MaxAudio == 3       \* process-audio requests started in one behaviour
MaxFetch == 3       \* get-translations requests started by one listener
MaxAttempts == 2    \* attempts the store gives one transaction before it fails
MaxJoin == 3        \* join requests started in one behaviour
MaxRequests == 3    \* requests of the listening client
MaxDuration == 3    \* longest answered request of the client, in ticks
TicksPerSecond == 2 \* resolution of the client's clock
QueryTime == 6      \* seconds one query of the polling loop takes
MaxServed == 2      \* process-audio requests started while a listener is served
MaxAdds == 3        \* fragments the worker receives in one behaviour
MaxTs == 2          \* largest capture timestamp of a fragment
MaxNow == 4

\* Bounds of the stream manager: audio messages, results per message.
MaxStream == 2
MaxResults == 2         \* largest value of the worker's clock

(***************************************************************************)
(* Program constants.                                                      *)
(***************************************************************************)
TIMEOUT == 15        \* get_translations: while time.time() - start_time < 15
POLL_INTERVAL == 1   \* get_translations: time.sleep(1)
RATE_LIMIT == 1      \* clean_listen: if elapsed < 1: time.sleep(1 - elapsed)
ERROR_SLEEP == 5     \* clean_listen: time.sleep(5) after a failed request
REQUEST_TIMEOUT == 20  \* clean_listen: requests.get(..., timeout=20)
BUFFER_TIME == 1     \* TranslationWorker: MessageBuffer(buffer_time=1.0)

Meetings == {"M1", "M2"}
TargetLanguages == {"es", "fr"}
SourceLanguages == {"en-US", "es"}
AudioReqs == {"a1", "a2"}       \* concurrent process-audio request slots
Listeners == {"l1"}             \* listening clients
Joiners == {"j1", "j2"}         \* concurrent join request slots

\* Texts are sequences of characters; " " is the whitespace character.
\* Transcript(k) is what the recognizer returns for the k-th audio chunk:
\* plain, with leading whitespace, with trailing whitespace, in turn.
Letters == <<"a", "b", "c", "d", "e", "f">>
Transcript(k) ==
    LET c == Letters[((k - 1) % Len(Letters)) + 1]
    IN  IF k % 3 = 1 THEN <<c>>
        ELSE IF k % 3 = 2 THEN <<" ", c>>
        ELSE <<c, " ">>

Absent == -1     \* a document that does not exist / a parameter not given
NoMeeting == [exists |-> FALSE, targetLanguages |-> <<>>, participants |-> {}]

VARIABLES
    meetingDoc,      \* meetings/{code}: the meeting document
    seqDoc,          \* meetings/{code}/metadata/sequence: its value, or Absent
    translations,    \* meetings/*/translations: the records, in creation order
    pa,              \* process_audio requests in flight, per slot
    paResp,          \* the last process_audio response sent
    nAudio,          \* process_audio requests started so far
    allocLog,        \* per meeting, the sequences returned by committed allocations
    gt,              \* get_translations requests and their clients, per listener
    jn,              \* join_meeting requests in flight, per slot
    nJoin,           \* join_meeting requests started so far
    buffer,          \* MessageBuffer.buffer: per meeting, the heap (a list)
    now,             \* the worker's clock, time.time()
    nAdds,           \* fragments added to the buffer so far
    lastReady,       \* what get_ready_messages returned, the last time it
                     \* returned anything (<<>> for a meeting it left out)
    handed,          \* per meeting, the fragments handed to
                     \* _process_buffered_message, in order
    fanout,          \* per meeting, the calls of translate_and_publish, in
                     \* order, each with what it published or that it failed
    looked,          \* per meeting, what get_meeting_languages returned for
                     \* each fragment handed on, in order
    settled,         \* the acks and nacks of the worker, in order
    lk,              \* MessageBuffer.lock and the threads that use it
    cl,              \* the listening client: its loop and its request log
    sm               \* the stream manager: its messages and publications

workerVars == <<buffer, now, nAdds, lastReady, handed, fanout, looked, settled, lk>>

clientVars == <<cl>>

streamVars == <<sm>>

vars == <<meetingDoc, seqDoc, translations, pa, paResp, nAudio, allocLog, gt,
          jn, nJoin, buffer, now, nAdds, lastReady, handed, fanout, looked,
          settled, lk, cl, sm>>

storeVars == <<meetingDoc, seqDoc, translations>>

(***************************************************************************)
(* Text helpers: str.strip() and ' '.join().                               *)
(***************************************************************************)
RECURSIVE LStrip(_)
LStrip(s) ==
    IF s = <<>> THEN s
    ELSE IF Head(s) = " " THEN LStrip(Tail(s)) ELSE s

RECURSIVE RStrip(_)
RStrip(s) ==
    IF s = <<>> THEN s
    ELSE IF s[Len(s)] = " " THEN RStrip(SubSeq(s, 1, Len(s) - 1)) ELSE s

Strip(s) == RStrip(LStrip(s))

RECURSIVE JoinSpace(_)
JoinSpace(ss) ==
    IF ss = <<>> THEN <<>>
    ELSE IF Len(ss) = 1 THEN ss[1]
    ELSE ss[1] \o <<" ">> \o JoinSpace(Tail(ss))

\* The external translator: a function of the text and the target language.
Translate(text, lang) == text \o <<lang>>

SeqToSet(s) == {s[i] : i \in 1..Len(s)}

(***************************************************************************)
(* process_audio                                                           *)
(***************************************************************************)
PaIdle ==
    [pc |-> "idle", meeting |-> "", src |-> "", text |-> <<>>, ts |-> 0,
     langs |-> <<>>, next |-> 0, stale |-> FALSE, attempts |-> 0,
     writes |-> <<>>, translations |-> <<>>, generated |-> 0,
     answered |-> {}]

\* A response of process_audio (ts, meeting, sequence and attempts tell which
\* request it answers, what its transaction allocated and how many times the
\* store refused its commit).
\* What a process_audio request carries, as far as the handler looks at it
\* before it reads the store: the method, whether the body is JSON, which of
\* the three parameters are missing, whether audioData decodes to a WAV file.
ValidReq == [method |-> "POST", parsed |-> TRUE, missing |-> {}, audioOk |-> TRUE]

NoPaResp ==
    [status |-> 0, transcription |-> <<>>, translations |-> <<>>, generated |-> 0,
     ts |-> 0, meeting |-> "", sequence |-> 0, attempts |-> 0, req |-> ValidReq,
     results |-> Absent]

PaResponse(p, status, sequence) ==
    [status |-> status,
     transcription |-> IF status = 200 THEN p.text ELSE <<>>,
     translations |-> IF status = 200 THEN p.translations ELSE <<>>,
     generated |-> IF status = 200 THEN p.generated ELSE 0,
     ts |-> p.ts, meeting |-> p.meeting, sequence |-> sequence,
     attempts |-> p.attempts, req |-> ValidReq,
     results |-> 1]

\* Mutant: an absent counter document is read as 1.
get_next_sequence_AbsentIsOne(m) ==
    LET current_value == IF seqDoc[m] = Absent THEN 1 ELSE seqDoc[m]
    IN  current_value + 1

\* get_next_sequence: the value the transaction will write and return.
get_next_sequence(m) ==
    LET current_value == IF seqDoc[m] = Absent THEN 0 ELSE seqDoc[m]
    IN  current_value + 1

\* Mutant: the sequence is allocated per record, not per fragment.
translation_data_OwnSequence(p, target_lang, sequence) ==
    [meeting |-> p.meeting,
     sourceText |-> p.text,
     sourceLanguage |-> p.src,
     targetLanguage |-> target_lang,
     translatedText |-> Translate(p.text, target_lang),
     sequence |-> IF target_lang = p.langs[1] THEN sequence ELSE sequence + 1,
     isComplete |-> TRUE,
     ts |-> p.ts]

\* One translation record of the transaction's write set.
translation_data(p, target_lang, sequence) ==
    [meeting |-> p.meeting,
     sourceText |-> p.text,
     sourceLanguage |-> p.src,
     targetLanguage |-> target_lang,
     translatedText |-> Translate(p.text, target_lang),
     sequence |-> sequence,
     isComplete |-> TRUE,
     ts |-> p.ts]

\* Mutant: the loop ends at the first translation that raises.
RECURSIVE Translated_AbortOnFailure(_, _, _)
Translated_AbortOnFailure(langs, src, ok) ==
    IF langs = <<>> THEN <<>>
    ELSE IF Head(langs) = src
         THEN Translated_AbortOnFailure(Tail(langs), src, ok)
         ELSE IF Head(langs) \in ok
              THEN <<Head(langs)>> \o Translated_AbortOnFailure(Tail(langs), src, ok)
              ELSE <<>>

\* The loop over target_languages: the languages translated in this run of
\* the body are those different from the source language whose translation
\* did not raise (ok is the set of languages the translator answers for).
RECURSIVE Translated(_, _, _)
Translated(langs, src, ok) ==
    IF langs = <<>> THEN <<>>
    ELSE IF Head(langs) # src /\ Head(langs) \in ok
         THEN <<Head(langs)>> \o Translated(Tail(langs), src, ok)
         ELSE Translated(Tail(langs), src, ok)

\* The languages the loop calls the translator for, in order: every target
\* language different from the source language, whatever the earlier calls did.
TranslatorCalls(langs, src) == SelectSeq(langs, LAMBDA l : l # src)

\* Mutant: audioData is not decoded before it is used.
ValidationStatus_AudioUnchecked(req) ==
    IF req.method # "POST" THEN 405
    ELSE IF ~req.parsed THEN 400
    ELSE IF req.missing # {} THEN 400
    ELSE 200

\* The checks before the recognizer is called, in the handler's order: the
\* method, the JSON body, the three parameters, the audio.  200 stands for a
\* request that passes them all.
ValidationStatus(req) ==
    IF req.method # "POST" THEN 405
    ELSE IF ~req.parsed THEN 400
    ELSE IF req.missing # {} THEN 400
    ELSE IF ~req.audioOk THEN 400
    ELSE 200

\* A request that does not pass the checks: it is answered at once.
PA_Invalid(r) ==
    /\ pa[r].pc = "idle"
    /\ nAudio < MaxAudio
    /\ nAudio' = nAudio + 1
    /\ \E method \in {"POST", "GET"}, parsed \in BOOLEAN,
          missing \in SUBSET {"meetingCode", "sourceLanguage", "audioData"},
          audioOk \in BOOLEAN, m \in Meetings :
         LET req == [method |-> method, parsed |-> parsed,
                     missing |-> missing, audioOk |-> audioOk]
         IN  /\ req # ValidReq
             /\ method # "POST" => (parsed /\ missing = {} /\ audioOk)
             /\ ~parsed => (missing = {} /\ audioOk)
             /\ "audioData" \in missing => audioOk
             /\ paResp' = [NoPaResp EXCEPT
                              !.status = ValidationStatus(req),
                              !.ts = nAudio + 1,
                              !.meeting = IF "meetingCode" \in missing \/ ~parsed
                                          THEN "" ELSE m,
                              !.req = req]
    /\ UNCHANGED <<storeVars, pa, allocLog, gt, jn, nJoin, workerVars, clientVars, streamVars>>

\* Mutant: the meeting is read before the recognition results are looked at.
PA_NoSpeech_AfterMeetingRead(r) ==
    /\ pa[r].pc = "idle"
    /\ nAudio < MaxAudio
    /\ nAudio' = nAudio + 1
    /\ \E m \in Meetings :
         paResp' = [NoPaResp EXCEPT
                       !.status = IF meetingDoc[m].exists THEN 200 ELSE 404,
                       !.ts = nAudio + 1,
                       !.meeting = m,
                       !.generated = Absent,
                       !.results = 0]
    /\ UNCHANGED <<storeVars, pa, allocLog, gt, jn, nJoin, workerVars, clientVars, streamVars>>

\* A request that passes the checks and whose audio the recognizer returns
\* no result for (response.results is empty): it is answered 200 with the
\* transcription '' and the translations [], before the meeting is read.  The
\* response has no translations_generated.
PA_NoSpeech(r) ==
    /\ pa[r].pc = "idle"
    /\ nAudio < MaxAudio
    /\ nAudio' = nAudio + 1
    /\ \E m \in Meetings :
         paResp' = [NoPaResp EXCEPT
                       !.status = 200,
                       !.ts = nAudio + 1,
                       !.meeting = m,
                       !.generated = Absent,
                       !.results = 0]
    /\ UNCHANGED <<storeVars, pa, allocLog, gt, jn, nJoin, workerVars, clientVars, streamVars>>

\* The request up to the read of the meeting document: the parameters are
\* present, the audio decodes and the recognizer returns a transcript.  A
\* meeting that does not exist is answered 404.
PA_Request(r) ==
    /\ pa[r].pc = "idle"
    /\ nAudio < MaxAudio
    /\ nAudio' = nAudio + 1
    /\ \E m \in Meetings, src \in SourceLanguages :
         LET p == [PaIdle EXCEPT !.meeting = m, !.src = src,
                                 !.text = Transcript(nAudio + 1),
                                 !.ts = nAudio + 1,
                                 !.langs = meetingDoc[m].targetLanguages]
         IN  IF ~meetingDoc[m].exists
             THEN /\ paResp' = PaResponse(p, 404, 0)
                  /\ pa' = pa
             ELSE /\ pa' = [pa EXCEPT ![r] = [p EXCEPT !.pc = "txn"]]
                  /\ paResp' = paResp
    /\ UNCHANGED <<storeVars, allocLog, gt, jn, nJoin, workerVars, clientVars, streamVars>>

\* One run of update_in_transaction's body: the counter is read inside the
\* transaction, each target language is translated, the writes are queued.
\* translations and translations_generated are nonlocal: they accumulate
\* over the runs of the body.
PA_TxnBody(r) ==
    /\ pa[r].pc = "txn"
    /\ \E ok \in SUBSET TargetLanguages :
         LET p == pa[r]
             sequence == get_next_sequence(p.meeting)
             done == Translated(p.langs, p.src, ok)
             recs == [i \in 1..Len(done) |-> translation_data(p, done[i], sequence)]
             resp == [i \in 1..Len(done) |->
                        [targetLanguage |-> done[i],
                         translatedText |-> Translate(p.text, done[i])]]
         IN  pa' = [pa EXCEPT ![r].pc = "commit",
                              ![r].next = sequence,
                              ![r].stale = FALSE,
                              ![r].writes = recs,
                              ![r].answered =
                                  ok \cap SeqToSet(TranslatorCalls(p.langs, p.src)),
                              ![r].translations = p.translations \o resp,
                              ![r].generated = p.generated + Len(done)]
    /\ UNCHANGED <<storeVars, paResp, nAudio, allocLog, gt, jn, nJoin, workerVars, clientVars, streamVars>>

\* Mutant: the counter is read outside the transaction, so a write of it
\* refuses no commit.
Invalidate_NoConflict(paf, m, self) == paf

\* Writing the sequence document invalidates every open transaction that read it.
Invalidate(paf, m, self) ==
    [x \in AudioReqs |->
        IF x # self /\ paf[x].pc = "commit" /\ paf[x].meeting = m
        THEN [paf[x] EXCEPT !.stale = TRUE]
        ELSE paf[x]]

\* Mutant: a transaction that wrote no record leaves the counter as it was.
PA_Commit_RollbackWhenEmpty(r) ==
    /\ pa[r].pc = "commit"
    /\ ~pa[r].stale
    /\ LET p == pa[r]
       IN  /\ seqDoc' = IF p.writes = <<>> THEN seqDoc
                        ELSE [seqDoc EXCEPT ![p.meeting] = p.next]
           /\ translations' = translations \o p.writes
           /\ allocLog' = [allocLog EXCEPT ![p.meeting] = Append(@, p.next)]
           /\ pa' = Invalidate([pa EXCEPT ![r] = PaIdle], p.meeting, r)
           /\ paResp' = PaResponse(p, 200, p.next)
    /\ UNCHANGED <<meetingDoc, nAudio, gt, jn, nJoin, workerVars, clientVars, streamVars>>

\* The commit of the transaction: the counter and the records become visible
\* together, and the handler answers 200.
PA_Commit(r) ==
    /\ pa[r].pc = "commit"
    /\ ~pa[r].stale
    /\ LET p == pa[r]
       IN  /\ seqDoc' = [seqDoc EXCEPT ![p.meeting] = p.next]
           /\ translations' = translations \o p.writes
           /\ allocLog' = [allocLog EXCEPT ![p.meeting] = Append(@, p.next)]
           /\ pa' = Invalidate([pa EXCEPT ![r] = PaIdle], p.meeting, r)
           /\ paResp' = PaResponse(p, 200, p.next)
    /\ UNCHANGED <<meetingDoc, nAudio, gt, jn, nJoin, workerVars, clientVars, streamVars>>

\* Mutant: when the retries are exhausted the records of the last attempt are
\* written all the same.
PA_Abort_KeepsWrites(r) ==
    /\ pa[r].pc = "commit"
    /\ pa[r].stale
    /\ IF pa[r].attempts + 1 < MaxAttempts
       THEN /\ pa' = [pa EXCEPT ![r].pc = "txn", ![r].attempts = @ + 1,
                                ![r].writes = <<>>, ![r].answered = {}]
            /\ paResp' = paResp
            /\ translations' = translations
       ELSE /\ pa' = [pa EXCEPT ![r] = PaIdle]
            /\ paResp' = PaResponse([pa[r] EXCEPT !.attempts = @ + 1], 500, 0)
            /\ translations' = translations \o pa[r].writes
    /\ UNCHANGED <<meetingDoc, seqDoc, nAudio, allocLog, gt, jn, nJoin, workerVars, clientVars, streamVars>>

\* The commit is refused because the counter was written since it was read:
\* the store runs the body again, or gives up and the handler answers 500.
PA_Abort(r) ==
    /\ pa[r].pc = "commit"
    /\ pa[r].stale
    /\ IF pa[r].attempts + 1 < MaxAttempts
       THEN /\ pa' = [pa EXCEPT ![r].pc = "txn", ![r].attempts = @ + 1,
                                ![r].writes = <<>>, ![r].answered = {}]
            /\ paResp' = paResp
       ELSE /\ pa' = [pa EXCEPT ![r] = PaIdle]
            /\ paResp' = PaResponse([pa[r] EXCEPT !.attempts = @ + 1], 500, 0)
    /\ UNCHANGED <<storeVars, nAudio, allocLog, gt, jn, nJoin, workerVars, clientVars, streamVars>>

(***************************************************************************)
(* get_translations                                                        *)
(***************************************************************************)
NoResp ==
    [status |-> 0, id |-> "", translatedText |-> <<>>, sourceLanguage |-> "",
     targetLanguage |-> "", sequence |-> Absent, empty |-> FALSE, used |-> <<>>]

GtIdle ==
    [pc |-> "idle", meeting |-> "", lang |-> "", last |-> Absent, elapsed |-> 0,
     resp |-> NoResp, nFetch |-> 0,
     reg |-> Absent, regLen |-> 0, received |-> <<>>, faithful |-> FALSE,
     raw |-> "<absent>"]

\* Mutant: the query asks for the sequence that follows the cursor, so that a
\* sequence without a record of the language stops the listener.
Matches_Contiguous(m, lang, last) ==
    {i \in 1..Len(translations) :
        /\ translations[i].meeting = m
        /\ translations[i].targetLanguage = lang
        /\ translations[i].isComplete = TRUE
        /\ translations[i].sequence = last + 1}

\* Mutant: the query asks for sequence < last_sequence.
Matches_Below(m, lang, last) ==
    {i \in 1..Len(translations) :
        /\ translations[i].meeting = m
        /\ translations[i].targetLanguage = lang
        /\ translations[i].isComplete = TRUE
        /\ translations[i].sequence < last}

\* Mutant: the query asks for sequence >= last_sequence.
Matches_Inclusive(m, lang, last) ==
    {i \in 1..Len(translations) :
        /\ translations[i].meeting = m
        /\ translations[i].targetLanguage = lang
        /\ translations[i].isComplete = TRUE
        /\ translations[i].sequence >= last}

\* Mutant: the query does not filter on targetLanguage.
Matches_AnyLanguage(m, lang, last) ==
    {i \in 1..Len(translations) :
        /\ translations[i].meeting = m
        /\ translations[i].isComplete = TRUE
        /\ translations[i].sequence > last}

\* The documents the query selects: the records of the meeting's translations
\* collection with the target language, isComplete and sequence > last_sequence.
Matches(m, lang, last) ==
    {i \in 1..Len(translations) :
        /\ translations[i].meeting = m
        /\ translations[i].targetLanguage = lang
        /\ translations[i].isComplete = TRUE
        /\ translations[i].sequence > last}

\* order_by('sequence'): ascending sequence, documents of equal sequence in
\* document order.
RECURSIVE OrderBySequence(_)
OrderBySequence(S) ==
    IF S = {} THEN <<>>
    ELSE LET i == CHOOSE x \in S : \A y \in S :
                      \/ translations[x].sequence < translations[y].sequence
                      \/ /\ translations[x].sequence = translations[y].sequence
                         /\ x <= y
         IN  <<i>> \o OrderBySequence(S \ {i})

\* One poll: results holds one entry per streamed document (doc is the
\* document the entry was read from).
QueryResults(m, lang, last) ==
    LET docs == OrderBySequence(Matches(m, lang, last))
    IN  [k \in 1..Len(docs) |->
            [translatedText |-> translations[docs[k]].translatedText,
             sourceLanguage |-> translations[docs[k]].sourceLanguage,
             sequence |-> translations[docs[k]].sequence,
             doc |-> docs[k]]]

\* results.sort(key=lambda x: x['sequence']): a stable sort.
RECURSIVE InsertBySequence(_, _)
InsertBySequence(sorted, r) ==
    IF sorted = <<>> THEN <<r>>
    ELSE IF sorted[Len(sorted)].sequence <= r.sequence THEN Append(sorted, r)
    ELSE Append(InsertBySequence(SubSeq(sorted, 1, Len(sorted) - 1), r),
                sorted[Len(sorted)])

RECURSIVE SortBySequence(_)
SortBySequence(rs) ==
    IF rs = <<>> THEN <<>>
    ELSE InsertBySequence(SortBySequence(SubSeq(rs, 1, Len(rs) - 1)), rs[Len(rs)])

\* Mutant: the join leaves out the last result.
ConcatenatedText_DropLast(results) ==
    JoinSpace([k \in 1..(Len(results) - 1) |-> Strip(results[k].translatedText)])

\* ' '.join(r['translatedText'].strip() for r in results)
ConcatenatedText(results) ==
    JoinSpace([k \in 1..Len(results) |-> Strip(results[k].translatedText)])

\* Mutant: the registration answers sequence 0 whatever the counter holds.
RegistrationResponse_Zero(m, lang) ==
    [status |-> 200, id |-> "registration", translatedText |-> <<>>,
     sourceLanguage |-> "", targetLanguage |-> lang,
     sequence |-> 0, empty |-> TRUE, used |-> <<>>]

RegistrationResponse(m, lang) ==
    LET current_sequence == IF seqDoc[m] = Absent THEN 0 ELSE seqDoc[m]
    IN  [status |-> 200, id |-> "registration", translatedText |-> <<>>,
         sourceLanguage |-> "", targetLanguage |-> lang,
         sequence |-> current_sequence, empty |-> TRUE, used |-> <<>>]

\* Mutant: the empty sentinel answers sequence 0 whatever the cursor was.
EmptyResponse_Zero(lang, last) ==
    [status |-> 200, id |-> "empty", translatedText |-> <<>>,
     sourceLanguage |-> "", targetLanguage |-> lang,
     sequence |-> 0, empty |-> TRUE, used |-> <<>>]

EmptyResponse(lang, last) ==
    [status |-> 200, id |-> "empty", translatedText |-> <<>>,
     sourceLanguage |-> "", targetLanguage |-> lang,
     sequence |-> last, empty |-> TRUE, used |-> <<>>]

ConcatResponse(lang, results) ==
    LET sorted == SortBySequence(results)
    IN  [status |-> 200, id |-> "concat",
         translatedText |-> ConcatenatedText(sorted),
         sourceLanguage |-> sorted[1].sourceLanguage,
         targetLanguage |-> lang,
         sequence |-> sorted[Len(sorted)].sequence,
         empty |-> FALSE,
         used |-> [k \in 1..Len(sorted) |-> sorted[k].doc]]

\* A listening client keeps the meeting and the language of its first request.
IsClientOf(g, m, lang) ==
    g.meeting = "" \/ (g.meeting = m /\ g.lang = lang)

\* A request without the sequence parameter: the registration.  A client
\* that follows the protocol registers once.
GT_Register(l) ==
    /\ gt[l].pc = "idle"
    /\ gt[l].nFetch < MaxFetch
    /\ ~gt[l].faithful
    /\ \E m \in Meetings, lang \in TargetLanguages :
         /\ IsClientOf(gt[l], m, lang)
         /\ gt' = [gt EXCEPT ![l] =
                  [GtIdle EXCEPT !.meeting = m, !.lang = lang,
                                 !.resp = RegistrationResponse(m, lang),
                                 !.nFetch = gt[l].nFetch + 1,
                                 !.reg = RegistrationResponse(m, lang).sequence,
                                 !.regLen = Len(translations),
                                 !.faithful = TRUE]]
    /\ UNCHANGED <<storeVars, pa, paResp, nAudio, allocLog, jn, nJoin, workerVars, clientVars, streamVars>>

\* A request with sequence = c: the handler enters its polling loop.  This
\* client follows the protocol: it has registered, and sends the sequence of
\* its previous response for the same meeting and language.
GT_Fetch(l) ==
    /\ gt[l].pc = "idle"
    /\ gt[l].nFetch < MaxFetch
    /\ gt[l].faithful
    /\ gt' = [gt EXCEPT ![l].pc = "polling",
                        ![l].last = gt[l].resp.sequence,
                        ![l].elapsed = 0,
                        ![l].nFetch = @ + 1]
    /\ UNCHANGED <<storeVars, pa, paResp, nAudio, allocLog, jn, nJoin, workerVars, clientVars, streamVars>>

\* A request with an arbitrary sequence parameter, from a client that does
\* not follow the protocol.
GT_FetchAny(l) ==
    /\ gt[l].pc = "idle"
    /\ gt[l].nFetch < MaxFetch
    /\ \E m \in Meetings, lang \in TargetLanguages, c \in 0..MaxAudio :
         /\ IsClientOf(gt[l], m, lang)
         /\ gt' = [gt EXCEPT ![l] =
                  [GtIdle EXCEPT !.pc = "polling",
                                 !.meeting = m, !.lang = lang, !.last = c,
                                 !.nFetch = gt[l].nFetch + 1]]
    /\ UNCHANGED <<storeVars, pa, paResp, nAudio, allocLog, jn, nJoin, workerVars, clientVars, streamVars>>

\* Mutant: the first poll that finds no record answers the empty sentinel,
\* without waiting for the timeout.
GT_Poll_NoWait(l) ==
    /\ gt[l].pc = "polling"
    /\ gt[l].elapsed < TIMEOUT
    /\ LET g == gt[l]
           results == QueryResults(g.meeting, g.lang, g.last)
       IN  IF results # <<>>
           THEN gt' = [gt EXCEPT ![l].pc = "idle",
                                 ![l].resp = ConcatResponse(g.lang, results)]
           ELSE gt' = [gt EXCEPT ![l].pc = "idle",
                                 ![l].elapsed = @ + QueryTime + POLL_INTERVAL,
                                 ![l].resp = EmptyResponse(g.lang, g.last)]
    /\ UNCHANGED <<storeVars, pa, paResp, nAudio, allocLog, jn, nJoin, workerVars, clientVars, streamVars>>

\* Mutant: a poll that finds records consumes them (clears their isComplete
\* flag, so that no later query selects them).
GT_Poll_Consume(l) ==
    /\ gt[l].pc = "polling"
    /\ gt[l].elapsed < TIMEOUT
    /\ LET g == gt[l]
           results == QueryResults(g.meeting, g.lang, g.last)
           found == {results[k].doc : k \in 1..Len(results)}
       IN  IF results # <<>>
           THEN /\ gt' = [gt EXCEPT ![l].pc = "idle",
                                    ![l].resp = ConcatResponse(g.lang, results)]
                /\ translations' =
                     [i \in 1..Len(translations) |->
                        IF i \in found
                        THEN [translations[i] EXCEPT !.isComplete = FALSE]
                        ELSE translations[i]]
           ELSE /\ gt' = [gt EXCEPT ![l].pc = "idle",
                                    ![l].elapsed = TIMEOUT,
                                    ![l].resp = EmptyResponse(g.lang, g.last)]
                /\ translations' = translations
    /\ UNCHANGED <<meetingDoc, seqDoc, pa, paResp, nAudio, allocLog, jn, nJoin, workerVars, clientVars, streamVars>>

\* One iteration of the polling loop, and what follows it: a poll that finds
\* records answers with their concatenation; one that finds none sleeps, and
\* answers the empty sentinel once the timeout has elapsed.
GT_Poll(l) ==
    /\ gt[l].pc = "polling"
    /\ gt[l].elapsed < TIMEOUT
    /\ LET g == gt[l]
           results == QueryResults(g.meeting, g.lang, g.last)
       IN  IF results # <<>>
           THEN gt' = [gt EXCEPT ![l].pc = "idle",
                                 ![l].resp = ConcatResponse(g.lang, results),
                                 ![l].received =
                                     IF g.faithful
                                     THEN @ \o ConcatResponse(g.lang, results).used
                                     ELSE @]
           ELSE IF g.elapsed + QueryTime + POLL_INTERVAL < TIMEOUT
           THEN gt' = [gt EXCEPT ![l].elapsed = @ + QueryTime + POLL_INTERVAL]
           ELSE gt' = [gt EXCEPT ![l].pc = "idle",
                                 ![l].elapsed = @ + QueryTime + POLL_INTERVAL,
                                 ![l].resp = EmptyResponse(g.lang, g.last)]
    /\ UNCHANGED <<storeVars, pa, paResp, nAudio, allocLog, jn, nJoin, workerVars, clientVars, streamVars>>

\* request.args.get('sequence') when the parameter is not in the query string.
SequenceAbsent == "<absent>"

\* Values of the sequence parameter that int() does not accept.
MalformedSequences == {"", "abc", "1.5"}

\* The body {'error': ...} of the two error returns.
ErrorResponse(status) == [NoResp EXCEPT !.status = status, !.id = "error"]

\* The status of a request the handler does not serve: 400 when meetingCode
\* or targetLanguage is missing or empty; otherwise int(last_sequence) raises
\* on a present, non-integer sequence and the handler's except answers 500.
ErrorStatus(m, lang, raw) ==
    IF m = "" \/ lang = "" THEN 400
    ELSE IF raw \in MalformedSequences THEN 500
    ELSE 200

\* A request with a missing or malformed parameter.
GT_Invalid(l) ==
    /\ gt[l].pc = "idle"
    /\ gt[l].nFetch < MaxFetch
    /\ \E m \in Meetings \cup {""}, lang \in TargetLanguages \cup {""},
          raw \in MalformedSequences \cup {SequenceAbsent} :
         /\ m = "" \/ lang = "" \/ raw \in MalformedSequences
         /\ gt' = [gt EXCEPT ![l] =
                  [GtIdle EXCEPT !.meeting = m, !.lang = lang, !.raw = raw,
                                 !.resp = ErrorResponse(ErrorStatus(m, lang, raw)),
                                 !.nFetch = gt[l].nFetch + 1]]
    /\ UNCHANGED <<storeVars, pa, paResp, nAudio, allocLog, jn, nJoin, workerVars, clientVars, streamVars>>

(***************************************************************************)
(* join_meeting                                                            *)
(***************************************************************************)
JnIdle ==
    [pc |-> "idle", method |-> "POST", parsed |-> TRUE, meeting |-> "",
     lang |-> "", pid |-> 0,
     langs |-> <<>>, status |-> 0, raised |-> FALSE]

\* firestore.ArrayUnion([target_language]) on the stored array.
ArrayUnion(arr, x) == IF x \in SeqToSet(arr) THEN arr ELSE Append(arr, x)

\* Mutant: the method is not looked at.
RejectStatus_MethodIgnored(method, parsed) == IF ~parsed THEN 500 ELSE 400

\* The status of a request that is answered before the store is used: the
\* method is looked at first; request.get_json() raises inside the try block
\* when the body is not JSON; the parameters are looked at last.
RejectStatus(method, parsed) ==
    IF method # "POST" THEN 405
    ELSE IF ~parsed THEN 500
    ELSE 400

\* A request that is answered before the store is used: any method other
\* than POST is answered 405, a POST whose body is not JSON 500, a POST
\* without meetingCode or without targetLanguage 400 ("" is a parameter that
\* was not given).
J_Invalid(j) ==
    /\ jn[j].pc \in {"idle", "done"}
    /\ nJoin < MaxJoin
    /\ nJoin' = nJoin + 1
    /\ \E method \in {"POST", "GET"}, parsed \in BOOLEAN,
          m \in {"M1", ""}, lang \in {"es", ""} :
         /\ method # "POST" \/ ~parsed \/ m = "" \/ lang = ""
         /\ ~parsed => (m = "" /\ lang = "")
         /\ jn' = [jn EXCEPT ![j] =
                      [JnIdle EXCEPT !.pc = "done", !.method = method,
                                     !.parsed = parsed,
                                     !.meeting = m, !.lang = lang,
                                     !.status = RejectStatus(method, parsed)]]
    /\ UNCHANGED <<storeVars, pa, paResp, nAudio, allocLog, gt, workerVars, clientVars, streamVars>>

\* A store operation of the request raises (the read, the set, the commit or
\* the update): nothing is written by it and the handler answers 500.
J_Fail(j) ==
    /\ jn[j].pc \in {"create", "commit", "update"}
    /\ jn' = [jn EXCEPT ![j].pc = "done", ![j].status = 500,
                         ![j].raised = TRUE]
    /\ UNCHANGED <<storeVars, pa, paResp, nAudio, allocLog, gt, nJoin, workerVars, clientVars, streamVars>>

\* A POST with both parameters, up to the read of the meeting document; the
\* read may raise, and the handler then answers 500.
J_Request(j) ==
    /\ jn[j].pc \in {"idle", "done"}
    /\ nJoin < MaxJoin
    /\ nJoin' = nJoin + 1
    /\ \E m \in Meetings, lang \in TargetLanguages, readOk \in BOOLEAN :
         jn' = [jn EXCEPT ![j] =
                  IF readOk
                  THEN [JnIdle EXCEPT !.pc = IF meetingDoc[m].exists THEN "update"
                                             ELSE "create",
                                      !.meeting = m, !.lang = lang,
                                      !.pid = nJoin + 1,
                                      !.langs = meetingDoc[m].targetLanguages]
                  ELSE [JnIdle EXCEPT !.pc = "done", !.meeting = m,
                                      !.lang = lang, !.status = 500,
                                      !.raised = TRUE]]
    /\ UNCHANGED <<storeVars, pa, paResp, nAudio, allocLog, gt, workerVars, clientVars, streamVars>>

\* create_meeting: meeting_ref.set(...) is written at once, outside the
\* transaction's write set.
J_CreateMeeting(j) ==
    /\ jn[j].pc = "create"
    /\ meetingDoc' = [meetingDoc EXCEPT ![jn[j].meeting] =
                        [exists |-> TRUE,
                         targetLanguages |-> <<jn[j].lang>>,
                         participants |-> {<<jn[j].pid, jn[j].lang>>}]]
    /\ jn' = [jn EXCEPT ![j].pc = "commit"]
    /\ UNCHANGED <<seqDoc, translations, pa, paResp, nAudio, allocLog, gt, nJoin, workerVars, clientVars, streamVars>>

\* The commit of create_meeting's transaction: the sequence counter is set
\* to 0 (the transaction read nothing, so nothing can refuse it).
J_CreateCommit(j) ==
    /\ jn[j].pc = "commit"
    /\ seqDoc' = [seqDoc EXCEPT ![jn[j].meeting] = 0]
    /\ pa' = Invalidate(pa, jn[j].meeting, "")
    /\ paResp' = paResp
    /\ jn' = [jn EXCEPT ![j].pc = "done", ![j].status = 200]
    /\ UNCHANGED <<meetingDoc, translations, nAudio, allocLog, gt, nJoin, workerVars, clientVars, streamVars>>

\* Mutant: the language is appended whether or not the meeting has it.
J_Update_AppendAlways(j) ==
    /\ jn[j].pc = "update"
    /\ meetingDoc' = [meetingDoc EXCEPT
            ![jn[j].meeting].targetLanguages = Append(@, jn[j].lang),
            ![jn[j].meeting].participants = @ \cup {<<jn[j].pid, jn[j].lang>>}]
    /\ jn' = [jn EXCEPT ![j].pc = "done", ![j].status = 200]
    /\ UNCHANGED <<seqDoc, translations, pa, paResp, nAudio, allocLog, gt, nJoin, workerVars, clientVars, streamVars>>

\* The update of an existing meeting.
J_Update(j) ==
    /\ jn[j].pc = "update"
    /\ LET m == jn[j].meeting
           lang == jn[j].lang
       IN  IF lang \notin SeqToSet(jn[j].langs)
           THEN meetingDoc' = [meetingDoc EXCEPT
                    ![m].targetLanguages = ArrayUnion(@, lang),
                    ![m].participants = @ \cup {<<jn[j].pid, lang>>}]
           ELSE meetingDoc' = [meetingDoc EXCEPT
                    ![m].participants = @ \cup {<<jn[j].pid, lang>>}]
    /\ jn' = [jn EXCEPT ![j].pc = "done", ![j].status = 200]
    /\ UNCHANGED <<seqDoc, translations, pa, paResp, nAudio, allocLog, gt, nJoin, workerVars, clientVars, streamVars>>

(***************************************************************************)
(* translation worker: PendingMessage, MessageBuffer, the processing loop  *)
(***************************************************************************)
\* PendingMessage is ordered by its timestamp alone (the other fields are
\* declared compare=False).
Less(a, b) == a.timestamp < b.timestamp

\* float(message_data.get('timestamp', 0))
TimestampOf(raw) == IF raw = Absent THEN 0 ELSE raw

Parent(pos) == pos \div 2

\* heapq._siftdown: move newitem from pos towards startpos, past every
\* parent it is less than.
RECURSIVE SiftDown(_, _, _, _)
SiftDown(heap, startpos, pos, newitem) ==
    IF pos > startpos /\ Less(newitem, heap[Parent(pos)])
    THEN SiftDown([heap EXCEPT ![pos] = heap[Parent(pos)]], startpos,
                  Parent(pos), newitem)
    ELSE [heap EXCEPT ![pos] = newitem]

\* heapq._siftup: bubble the smaller child up until a leaf is reached, put
\* newitem there and sift it down.
RECURSIVE SiftUp(_, _, _, _)
SiftUp(heap, startpos, pos, newitem) ==
    LET childpos == 2 * pos
        rightpos == childpos + 1
        smaller == IF rightpos <= Len(heap)
                      /\ ~Less(heap[childpos], heap[rightpos])
                   THEN rightpos ELSE childpos
    IN  IF childpos <= Len(heap)
        THEN SiftUp([heap EXCEPT ![pos] = heap[smaller]], startpos, smaller,
                    newitem)
        ELSE SiftDown(heap, startpos, pos, newitem)

\* heapq.heappush
HeapPush(heap, item) ==
    SiftDown(Append(heap, item), 1, Len(heap) + 1, item)

\* Mutant: the pop takes the last element of the list instead of the root.
HeapPopped_Last(heap) == heap[Len(heap)]

\* heapq.heappop: the element returned, and the heap left.
HeapPopped(heap) == heap[1]

HeapAfterPop(heap) ==
    LET lastelt == heap[Len(heap)]
        rest == SubSeq(heap, 1, Len(heap) - 1)
    IN  IF rest = <<>> THEN rest ELSE SiftUp(rest, 1, 1, lastelt)

\* Mutant: the loop returns the popped fragments older than the window only
\* (> instead of >=).
RECURSIVE ReadyOf_Strict(_, _, _)
ReadyOf_Strict(messages, current_time, ready) ==
    IF messages # <<>> /\ (current_time - messages[1].timestamp) >= BUFFER_TIME
    THEN ReadyOf_Strict(HeapAfterPop(messages), current_time,
                        IF (current_time - messages[1].timestamp) > BUFFER_TIME
                        THEN Append(ready, HeapPopped(messages))
                        ELSE ready)
    ELSE ready

\* The while loop of get_ready_messages on one meeting's heap: the ready
\* list, given what was popped so far.
RECURSIVE ReadyOf(_, _, _)
ReadyOf(messages, current_time, ready) ==
    IF messages # <<>> /\ (current_time - messages[1].timestamp) >= BUFFER_TIME
    THEN ReadyOf(HeapAfterPop(messages), current_time,
                 Append(ready, HeapPopped(messages)))
    ELSE ready

\* The heap the loop leaves.
RECURSIVE LeftOf(_, _)
LeftOf(messages, current_time) ==
    IF messages # <<>> /\ (current_time - messages[1].timestamp) >= BUFFER_TIME
    THEN LeftOf(HeapAfterPop(messages), current_time)
    ELSE messages

\* The entry of the settlement log for the message process_message handles.
Settlement(message_id, outcome, reason) ==
    [message_id |-> message_id, outcome |-> outcome, reason |-> reason]

\* MessageBuffer.add_message, under the lock.  seen tells how many fragments
\* of the meeting had been handed on when this one arrived.
W_Add(m) ==
    /\ nAdds < MaxAdds
    /\ nAdds' = nAdds + 1
    /\ \E raw \in {Absent} \cup (0..MaxTs) :
         buffer' = [buffer EXCEPT ![m] =
                      HeapPush(@, [timestamp |-> TimestampOf(raw),
                                   raw |-> raw,
                                   message_id |-> nAdds + 1,
                                   seen |-> Len(handed[m])])]
    /\ settled' = Append(settled, Settlement(nAdds + 1, "ack", ""))
    /\ UNCHANGED <<now, lastReady, handed, fanout, looked, lk>>
    /\ UNCHANGED <<storeVars, pa, paResp, nAudio, allocLog, gt, jn, nJoin, clientVars, streamVars>>

\* Time passes.
W_Tick ==
    /\ now < MaxNow
    /\ now' = now + 1
    /\ UNCHANGED <<buffer, nAdds, lastReady, handed, fanout, looked, settled, lk>>
    /\ UNCHANGED <<storeVars, pa, paResp, nAudio, allocLog, gt, jn, nJoin, clientVars, streamVars>>

\* message_data.get('sourceLanguage') of a message that has none.
NoSourceLanguage == "<absent>"

\* Fragments are redelivered with the data they were sent with; the text and
\* the source language of a message are functions of its id.  Every third
\* message came without a source language.
SourceOf(message_id) ==
    IF message_id % 3 = 1 THEN "en-US"
    ELSE IF message_id % 3 = 2 THEN "es"
    ELSE NoSourceLanguage

\* source_language.split('-')[0]
BaseLanguage(source_language) ==
    IF source_language = "en-US" THEN "en" ELSE source_language

\* Mutant: a lookup that fails is answered with the languages of the meeting.
get_meeting_languages_Unfailing(m, raised) ==
    IF meetingDoc[m].exists THEN meetingDoc[m].targetLanguages ELSE <<>>

\* get_meeting_languages: the stored list; [] when the meeting is not found
\* and when the read raises.
get_meeting_languages(m, raised) ==
    IF raised THEN <<>>
    ELSE IF meetingDoc[m].exists THEN meetingDoc[m].targetLanguages
    ELSE <<>>

\* translate_and_publish for one fragment and one target language: the
\* message published to the topic meeting-{m}-{target_lang}, or the failure
\* of the translator or of the publisher (ok = FALSE, nothing published).
translate_and_publish(pending_msg, target_lang, m, ok) ==
    LET text == Transcript(pending_msg.message_id)
        source_language == SourceOf(pending_msg.message_id)
    IN  [message_id |-> pending_msg.message_id,
         topic |-> <<m, target_lang>>,
         translatedText |->
             IF target_lang = BaseLanguage(source_language)
             THEN text
             ELSE Translate(text, target_lang),
         sourceLanguage |-> source_language,
         timestamp |-> pending_msg.raw,
         ok |-> ok]

\* Mutant: the exception of one fragment ends the processing of the drain.
RECURSIVE ProcessAll_StopAtException(_, _, _, _, _)
ProcessAll_StopAtException(m, ready, k, lost, good) ==
    IF k > Len(ready) \/ SourceOf(ready[k].message_id) = NoSourceLanguage
    THEN <<>>
    ELSE LET langs == get_meeting_languages(m, <<m, k>> \in lost)
         IN  [i \in 1..Len(langs) |->
                 translate_and_publish(ready[k], langs[i], m,
                                       <<m, k, langs[i]>> \in good)]
             \o ProcessAll_StopAtException(m, ready, k + 1, lost, good)

\* _process_buffered_message for one fragment: the calls of
\* translate_and_publish it completes, one per language found.  A fragment
\* without a source language makes the first call raise at the split, before
\* anything is translated; the exception ends the fragment's loop and is
\* caught and logged.
process_buffered_message(m, ready, k, lost, good) ==
    LET langs == get_meeting_languages(m, <<m, k>> \in lost)
    IN  IF SourceOf(ready[k].message_id) = NoSourceLanguage
        THEN <<>>
        ELSE [i \in 1..Len(langs) |->
                 translate_and_publish(ready[k], langs[i], m,
                                       <<m, k, langs[i]>> \in good)]

\* The inner loop of process_loop for meeting m, from fragment k on: the
\* calls completed, in order.  lost is the set of fragments <<m, k>> whose
\* language lookup raises, good the set of calls <<m, k, target_lang>> that
\* succeed.
RECURSIVE ProcessAll(_, _, _, _, _)
ProcessAll(m, ready, k, lost, good) ==
    IF k > Len(ready) THEN <<>>
    ELSE process_buffered_message(m, ready, k, lost, good)
         \o ProcessAll(m, ready, k + 1, lost, good)

\* The language lookups of one iteration of process_loop that can fail in a
\* way that shows: those of the fragments whose meeting exists.
LookupsOf(ready) ==
    {c \in Meetings \X (1..MaxAdds) :
        /\ c[2] <= Len(ready[c[1]])
        /\ meetingDoc[c[1]].exists}

\* The calls of translate_and_publish of one iteration of process_loop.
CallsOf(ready, lost) ==
    {c \in Meetings \X (1..MaxAdds) \X TargetLanguages :
        /\ c[2] <= Len(ready[c[1]])
        /\ SourceOf(ready[c[1]][c[2]].message_id) # NoSourceLanguage
        /\ c[3] \in SeqToSet(get_meeting_languages(c[1], <<c[1], c[2]>> \in lost))}

\* get_ready_messages on the heaps at current_time, and the processing of
\* what it returned: every ready fragment is handed to
\* _process_buffered_message, meeting by meeting, in the order of its ready
\* list, and fanned out to the target languages found for its meeting.  The
\* lookups in lost raise, the calls in good succeed.
DrainedWith(heaps, current_time, lost, good) ==
    \E ready \in {[m \in Meetings |-> ReadyOf(heaps[m], current_time, <<>>)]} :
        /\ lastReady' = ready
        /\ buffer' = [m \in Meetings |-> LeftOf(heaps[m], current_time)]
        /\ handed' = [m \in Meetings |-> handed[m] \o ready[m]]
        /\ looked' =
             [m \in Meetings |->
                looked[m] \o
                  [k \in 1..Len(ready[m]) |->
                     [message_id |-> ready[m][k].message_id,
                      raised |-> <<m, k>> \in lost,
                      langs |-> get_meeting_languages(m, <<m, k>> \in lost)]]]
        /\ fanout' = [m \in Meetings |->
                        fanout[m] \o ProcessAll(m, ready[m], 1, lost, good)]

\* The same, whatever lookups and calls fail.
Drained(heaps, current_time) ==
    LET ready == [m \in Meetings |-> ReadyOf(heaps[m], current_time, <<>>)]
    IN  \E lost \in SUBSET LookupsOf(ready) :
           \E good \in SUBSET CallsOf(ready, lost) :
              DrainedWith(heaps, current_time, lost, good)

\* One iteration of process_loop.
W_Drain ==
    /\ \E m \in Meetings : ReadyOf(buffer[m], now, <<>>) # <<>>
    /\ Drained(buffer, now)
    /\ UNCHANGED <<now, nAdds, settled, lk>>
    /\ UNCHANGED <<storeVars, pa, paResp, nAudio, allocLog, gt, jn, nJoin, clientVars, streamVars>>

\* One iteration of process_loop in which no lookup and no call fails.
W_DrainUnfailing ==
    /\ \E m \in Meetings : ReadyOf(buffer[m], now, <<>>) # <<>>
    /\ \E ready \in {[m \in Meetings |-> ReadyOf(buffer[m], now, <<>>)]} :
         \E good \in {CallsOf(ready, {})} :
            DrainedWith(buffer, now, {}, good)
    /\ UNCHANGED <<now, nAdds, settled, lk>>
    /\ UNCHANGED <<storeVars, pa, paResp, nAudio, allocLog, gt, jn, nJoin, clientVars, streamVars>>

\* Mutant: a message whose id is already known is acknowledged and dropped.
W_Redeliver_Deduplicated(m) ==
    /\ nAdds < MaxAdds
    /\ buffer[m] \o handed[m] # <<>>
    /\ nAdds' = nAdds + 1
    /\ \E old \in SeqToSet(buffer[m] \o handed[m]) :
         settled' = Append(settled, Settlement(old.message_id, "ack", ""))
    /\ UNCHANGED <<buffer, now, lastReady, handed, fanout, looked, lk>>
    /\ UNCHANGED <<storeVars, pa, paResp, nAudio, allocLog, gt, jn, nJoin, clientVars, streamVars>>

\* The broker delivers again a message it has delivered before (at-least-once
\* delivery): process_message adds it to the buffer as it did the first time.
W_Redeliver(m) ==
    /\ nAdds < MaxAdds
    /\ nAdds' = nAdds + 1
    /\ \E old \in SeqToSet(buffer[m] \o handed[m]) :
         /\ buffer' = [buffer EXCEPT ![m] =
                         HeapPush(@, [timestamp |-> TimestampOf(old.raw),
                                      raw |-> old.raw,
                                      message_id |-> old.message_id,
                                      seen |-> Len(handed[m])])]
         /\ settled' = Append(settled, Settlement(old.message_id, "ack", ""))
    /\ UNCHANGED <<now, lastReady, handed, fanout, looked, lk>>
    /\ UNCHANGED <<storeVars, pa, paResp, nAudio, allocLog, gt, jn, nJoin, clientVars, streamVars>>

\* Mutant: the message is nacked after it was pushed on the heap.
W_Nack_AfterAdd ==
    /\ nAdds < MaxAdds
    /\ nAdds' = nAdds + 1
    /\ \E reason \in {"unparsable", "no meetingCode", "bad timestamp"} :
         settled' = Append(settled, Settlement(nAdds + 1, "nack", reason))
    /\ \E m \in Meetings :
         buffer' = [buffer EXCEPT ![m] =
                      HeapPush(@, [timestamp |-> 0, raw |-> Absent,
                                   message_id |-> nAdds + 1,
                                   seen |-> Len(handed[m])])]
    /\ UNCHANGED <<now, lastReady, handed, fanout, looked, lk>>
    /\ UNCHANGED <<storeVars, pa, paResp, nAudio, allocLog, gt, jn, nJoin, clientVars, streamVars>>

\* process_message for a message it does not buffer: the data is not JSON
\* (json.loads raises), has no meetingCode, or has a timestamp float() does
\* not accept (add_message raises before the push).  The message is nacked.
W_Nack ==
    /\ nAdds < MaxAdds
    /\ nAdds' = nAdds + 1
    /\ \E reason \in {"unparsable", "no meetingCode", "bad timestamp"} :
         settled' = Append(settled, Settlement(nAdds + 1, "nack", reason))
    /\ UNCHANGED <<buffer, now, lastReady, handed, fanout, looked, lk>>
    /\ UNCHANGED <<storeVars, pa, paResp, nAudio, allocLog, gt, jn, nJoin, clientVars, streamVars>>

\* The threads of the worker that use the buffer: the subscriber's callback
\* threads, and the thread of process_loop.
Producers == {"p1", "p2"}

LkIdle ==
    [holder |-> "",
     prod |-> [p \in Producers |->
                 [pc |-> "idle", meeting |-> "", item |-> <<>>, messages |-> <<>>]],
     drain |-> [pc |-> "idle", heaps |-> [m \in Meetings |-> <<>>],
                current_time |-> 0]]

\* The name of the thread of process_loop as holder of the lock.
Drainer == "drain"

\* A callback thread receives a message for meeting m, with a timestamp, and
\* calls add_message: it is about to acquire the lock.
L_Receive(p, m) ==
    /\ lk.prod[p].pc = "idle"
    /\ nAdds < MaxAdds
    /\ nAdds' = nAdds + 1
    /\ \E raw \in 0..MaxTs :
         lk' = [lk EXCEPT !["prod"][p] =
                  [pc |-> "waiting", meeting |-> m,
                   item |-> <<[timestamp |-> TimestampOf(raw), raw |-> raw,
                               message_id |-> nAdds + 1, seen |-> 0]>>,
                   messages |-> <<>>]]
    /\ UNCHANGED <<buffer, now, lastReady, handed, fanout, looked, settled>>
    /\ UNCHANGED <<storeVars, pa, paResp, nAudio, allocLog, gt, jn, nJoin, clientVars, streamVars>>

\* Mutant: add_message does not acquire the lock.
L_AddEnter_Unlocked(p) ==
    /\ lk.prod[p].pc = "waiting"
    /\ lk' = [lk EXCEPT !.holder = p,
                        !["prod"][p].pc = "locked",
                        !["prod"][p].messages = buffer[lk.prod[p].meeting]]
    /\ UNCHANGED <<buffer, now, nAdds, lastReady, handed, fanout, looked, settled>>
    /\ UNCHANGED <<storeVars, pa, paResp, nAudio, allocLog, gt, jn, nJoin, clientVars, streamVars>>

\* add_message enters `with self.lock` when the lock is free, and reads the
\* heap of its meeting.
L_AddEnter(p) ==
    /\ lk.prod[p].pc = "waiting"
    /\ lk.holder = ""
    /\ lk' = [lk EXCEPT !.holder = p,
                        !["prod"][p].pc = "locked",
                        !["prod"][p].messages = buffer[lk.prod[p].meeting]]
    /\ UNCHANGED <<buffer, now, nAdds, lastReady, handed, fanout, looked, settled>>
    /\ UNCHANGED <<storeVars, pa, paResp, nAudio, allocLog, gt, jn, nJoin, clientVars, streamVars>>

\* add_message pushes the fragment on the heap it read and leaves the lock;
\* process_message acks the message.
L_AddExit(p) ==
    /\ lk.prod[p].pc = "locked"
    /\ LET t == lk.prod[p]
           m == t.meeting
       IN  /\ buffer' = [buffer EXCEPT ![m] =
                           HeapPush(t.messages,
                                    [t.item[1] EXCEPT !.seen = Len(handed[m])])]
           /\ settled' = Append(settled, Settlement(t.item[1].message_id, "ack", ""))
    /\ lk' = [lk EXCEPT !.holder = "", !["prod"][p] = LkIdle.prod[p]]
    /\ UNCHANGED <<now, nAdds, lastReady, handed, fanout, looked>>
    /\ UNCHANGED <<storeVars, pa, paResp, nAudio, allocLog, gt, jn, nJoin, clientVars, streamVars>>

\* process_loop reads the clock and calls get_ready_messages: it is about to
\* acquire the lock.
L_DrainCall ==
    /\ lk.drain.pc = "idle"
    /\ lk' = [lk EXCEPT !.drain.pc = "waiting", !.drain.current_time = now]
    /\ UNCHANGED <<buffer, now, nAdds, lastReady, handed, fanout, looked, settled>>
    /\ UNCHANGED <<storeVars, pa, paResp, nAudio, allocLog, gt, jn, nJoin, clientVars, streamVars>>

\* get_ready_messages enters `with self.lock` when the lock is free, and
\* reads the heaps.
L_DrainEnter ==
    /\ lk.drain.pc = "waiting"
    /\ lk.holder = ""
    /\ lk' = [lk EXCEPT !.holder = Drainer,
                        !.drain.pc = "locked",
                        !.drain.heaps = buffer]
    /\ UNCHANGED <<buffer, now, nAdds, lastReady, handed, fanout, looked, settled>>
    /\ UNCHANGED <<storeVars, pa, paResp, nAudio, allocLog, gt, jn, nJoin, clientVars, streamVars>>

\* get_ready_messages pops what is ready from the heaps it read, leaves the
\* lock and returns; process_loop processes what was returned.
L_DrainExit ==
    /\ lk.drain.pc = "locked"
    /\ Drained(lk.drain.heaps, lk.drain.current_time)
    /\ lk' = [lk EXCEPT !.holder = "", !.drain = LkIdle.drain]
    /\ UNCHANGED <<now, nAdds, settled>>
    /\ UNCHANGED <<storeVars, pa, paResp, nAudio, allocLog, gt, jn, nJoin, clientVars, streamVars>>

InitWorker ==
    /\ buffer = [m \in Meetings |-> <<>>]
    /\ now = 0
    /\ nAdds = 0
    /\ lastReady = [m \in Meetings |-> <<>>]
    /\ handed = [m \in Meetings |-> <<>>]
    /\ fanout = [m \in Meetings |-> <<>>]
    /\ looked = [m \in Meetings |-> <<>>]
    /\ settled = <<>>
    /\ lk = LkIdle

(***************************************************************************)
(* The listening client: TranslationListener.listen of clean_listen.py and *)
(* of listen_translations.py, which run the same loop.  Times are in ticks *)
(* of the client's clock.                                                  *)
(***************************************************************************)
Seconds(n) == n * TicksPerSecond

\* The statuses the endpoint answers with.
Statuses == {200, 400, 404, 500}

\* The parameters of the client's request: they are set when the client is
\* constructed, and the loop never changes them.
RequestOf(c) ==
    [meetingCode |-> c.meeting_id, targetLanguage |-> c.language,
     clientId |-> c.client_id]

InitClient ==
    cl = [pc |-> "loop", meeting_id |-> "M1", language |-> "es",
          client_id |-> "c1", clock |-> 0, last_check |-> 0, log |-> <<>>]

\* The entry of the request log for the request the loop sends now.
Sent(kind, status) ==
    [start |-> cl.clock, request |-> RequestOf(cl), kind |-> kind,
     status |-> status]

\* Rate limiting: if elapsed < 1: time.sleep(1 - elapsed), where elapsed is
\* the time since last_check.
SleepFor(elapsed) ==
    IF elapsed < Seconds(RATE_LIMIT) THEN Seconds(RATE_LIMIT) - elapsed ELSE 0

\* An iteration whose request is answered, with status 200 or another one:
\* the translations of a 200 are printed, then the rate limit is applied.
CL_Answered ==
    /\ cl.pc = "loop"
    /\ Len(cl.log) < MaxRequests
    /\ \E status \in Statuses, d \in 0..MaxDuration :
         LET current_time == cl.clock + d
             elapsed == current_time - cl.last_check
             resumed == current_time + SleepFor(elapsed)
         IN  cl' = [cl EXCEPT !.log = Append(@, Sent("answered", status)),
                              !.clock = resumed,
                              !.last_check = resumed]
    /\ UNCHANGED <<storeVars, pa, paResp, nAudio, allocLog, gt, jn, nJoin, workerVars, streamVars>>

\* An iteration whose request times out: except requests.Timeout: continue.
CL_Timeout ==
    /\ cl.pc = "loop"
    /\ Len(cl.log) < MaxRequests
    /\ cl' = [cl EXCEPT !.log = Append(@, Sent("timeout", 0)),
                        !.clock = @ + Seconds(REQUEST_TIMEOUT)]
    /\ UNCHANGED <<storeVars, pa, paResp, nAudio, allocLog, gt, jn, nJoin, workerVars, streamVars>>

\* An iteration that fails otherwise: a transport error of the request, or
\* an exception while the answer is read; both sleep before the next request.
CL_Failed ==
    /\ cl.pc = "loop"
    /\ Len(cl.log) < MaxRequests
    /\ \E kind \in {"transport", "unexpected"}, d \in 0..MaxDuration :
         cl' = [cl EXCEPT !.log = Append(@, Sent(kind, 0)),
                          !.clock = @ + d + Seconds(ERROR_SLEEP)]
    /\ UNCHANGED <<storeVars, pa, paResp, nAudio, allocLog, gt, jn, nJoin, workerVars, streamVars>>

\* KeyboardInterrupt ends the loop.
CL_Stop ==
    /\ cl.pc = "loop"
    /\ cl' = [cl EXCEPT !.pc = "stopped"]
    /\ UNCHANGED <<storeVars, pa, paResp, nAudio, allocLog, gt, jn, nJoin, workerVars, streamVars>>

(***************************************************************************)
(* The stream manager.                                                     *)
(***************************************************************************)
\* The responses of the recognizer for one audio message: up to MaxResults
\* results, each final or interim, with a transcript that is blank or not,
\* and with the start time of its first word.
RecognizerResults ==
    UNION {[1..n -> [is_final : BOOLEAN, blank : BOOLEAN, start_time : 0..1]] :
             n \in 0..MaxResults}

\* results_with_timing: the final results whose transcript is not blank, in
\* the order of the responses.  The transcript of result i is written i.
RECURSIVE results_with_timing(_, _)
results_with_timing(results, i) ==
    IF i > Len(results) THEN <<>>
    ELSE (IF results[i].is_final /\ ~results[i].blank
          THEN <<[transcript |-> i, start_time |-> results[i].start_time]>>
          ELSE <<>>)
         \o results_with_timing(results, i + 1)

\* sorted(results_with_timing, key = start_time): a stable sort.
RECURSIVE SortedByStartTime(_)
SortedByStartTime(rs) ==
    IF rs = <<>> THEN <<>>
    ELSE LET least == CHOOSE i \in 1..Len(rs) :
                         /\ \A j \in 1..Len(rs) : rs[i].start_time <= rs[j].start_time
                         /\ \A j \in 1..(i - 1) : rs[j].start_time > rs[i].start_time
             rest == [j \in 1..(Len(rs) - 1) |-> IF j < least THEN rs[j] ELSE rs[j + 1]]
         IN  <<rs[least]>> \o SortedByStartTime(rest)

\* Mutant: process_audio returns the transcripts it published before the
\* publisher failed.
process_audio_ReturnsPublished(results, raised, fail_at) ==
    LET sorted_results == SortedByStartTime(results_with_timing(results, 1))
        published == IF fail_at = 0 THEN sorted_results
                     ELSE SubSeq(sorted_results, 1, fail_at - 1)
    IN  IF raised
        THEN [published |-> <<>>, returned |-> FALSE, transcript |-> <<>>]
        ELSE [published |-> published,
              returned |-> published # <<>>,
              transcript |-> [k \in 1..Len(published) |-> published[k].transcript]]

\* StreamManager.process_audio: the transcripts published to the translation
\* topic, in order, and the value returned: the joined transcripts, or None
\* (returned = FALSE) when nothing final was recognized and when the
\* recognizer (raised) or the publisher (at publication fail_at) failed.
process_audio(results, raised, fail_at) ==
    LET sorted_results == SortedByStartTime(results_with_timing(results, 1))
    IN  IF raised
        THEN [published |-> <<>>, returned |-> FALSE, transcript |-> <<>>]
        ELSE IF fail_at # 0
        THEN [published |-> SubSeq(sorted_results, 1, fail_at - 1),
              returned |-> FALSE, transcript |-> <<>>]
        ELSE [published |-> sorted_results,
              returned |-> sorted_results # <<>>,
              transcript |-> [k \in 1..Len(sorted_results) |->
                                 sorted_results[k].transcript]]

NoOutcome ==
    [missing |-> {}, results |-> <<>>, raised |-> FALSE, fail_at |-> 0,
     called |-> FALSE, published |-> <<>>, returned |-> FALSE,
     transcript |-> <<>>, outcome |-> ""]

\* StreamManager.process_message for one audio message: missing are the
\* attributes it lacks; the recognizer raises or answers results; the
\* publisher fails at publication fail_at, or not at all (0).
SM_Process ==
    /\ sm.count < MaxStream
    /\ \E missing \in SUBSET {"meetingCode", "sourceLanguage"},
          results \in RecognizerResults, raised \in BOOLEAN :
         \E fail_at \in 0..Len(results_with_timing(results, 1)) :
            /\ raised => results = <<>> /\ fail_at = 0
            /\ missing # {} => results = <<>> /\ ~raised
            /\ LET input == [NoOutcome EXCEPT !.missing = missing,
                                              !.results = results,
                                              !.raised = raised,
                                              !.fail_at = fail_at]
                   done == process_audio(results, raised, fail_at)
                   last == IF missing # {}
                           THEN [input EXCEPT !.outcome = "nack"]
                           ELSE [input EXCEPT
                                    !.called = TRUE,
                                    !.published = done.published,
                                    !.returned = done.returned,
                                    !.transcript = done.transcript,
                                    !.outcome = IF done.returned THEN "ack"
                                                ELSE "nack"]
               IN  sm' = [count |-> sm.count + 1,
                          last |-> last,
                          topic |-> sm.topic \o last.published]
    /\ UNCHANGED <<storeVars, pa, paResp, nAudio, allocLog, gt, jn, nJoin, workerVars, clientVars>>

InitStream ==
    sm = [count |-> 0, last |-> NoOutcome, topic |-> <<>>]

(***************************************************************************)
(* Specifications                                                          *)
(***************************************************************************)
InitRequests ==
    /\ pa = [r \in AudioReqs |-> PaIdle]
    /\ paResp = NoPaResp
    /\ nAudio = 0
    /\ allocLog = [m \in Meetings |-> <<>>]
    /\ gt = [l \in Listeners |-> GtIdle]
    /\ jn = [j \in Joiners |-> JnIdle]
    /\ nJoin = 0
    /\ InitWorker
    /\ InitClient
    /\ InitStream

\* The store before any request.
Init ==
    /\ meetingDoc = [m \in Meetings |-> NoMeeting]
    /\ seqDoc = [m \in Meetings |-> Absent]
    /\ translations = <<>>
    /\ InitRequests

AudioNext == \E r \in AudioReqs :
    PA_Request(r) \/ PA_TxnBody(r) \/ PA_Commit(r) \/ PA_Abort(r)

ListenNext == \E l \in Listeners :
    GT_Register(l) \/ GT_Fetch(l) \/ GT_Poll(l)

\* The translation worker: fragments arrive, time passes, the loop drains.
WorkerNext == (\E m \in Meetings : W_Add(m)) \/ W_Tick \/ W_Drain

\* The listening client.
ClientNext == CL_Answered \/ CL_Timeout \/ CL_Failed \/ CL_Stop

\* The worker behind a broker that delivers at least once.  The fragments are
\* those of one meeting: the buffers of two meetings share nothing.
BrokerMeetings == {"M1"}

\* The worker's threads, step by step: callback threads that add, the loop
\* thread that drains, and the clock.
LockNext ==
    \/ \E p \in Producers :
          \/ \E m \in Meetings : L_Receive(p, m)
          \/ L_AddEnter(p)
          \/ L_AddExit(p)
    \/ L_DrainCall
    \/ L_DrainEnter
    \/ L_DrainExit
    \/ W_Tick

JoinNext == \E j \in Joiners :
    \/ J_Invalid(j)
    \/ J_Request(j)
    \/ J_CreateMeeting(j)
    \/ J_CreateCommit(j)
    \/ J_Update(j)
    \/ J_Fail(j)

Next ==
    \/ AudioNext
    \/ \E r \in AudioReqs : PA_Invalid(r) \/ PA_NoSpeech(r)
    \/ ListenNext
    \/ JoinNext
    \/ WorkerNext
    \/ \E l \in Listeners : GT_Invalid(l) \/ GT_FetchAny(l)
    \/ \E m \in Meetings : W_Redeliver(m)
    \/ W_Nack
    \/ LockNext
    \/ SM_Process
    \/ ClientNext

Spec == Init /\ [][Next]_vars

\* The store once listeners have joined: M1 with listeners in es and fr and
\* its counter at 0; M2 either with a listener in es, or not created yet.
InitServe ==
    /\ \E created \in {{"M1"}, {"M1", "M2"}} :
         /\ meetingDoc =
              [m \in Meetings |->
                 IF m \in created
                 THEN [exists |-> TRUE,
                       targetLanguages |->
                           IF m = "M1" THEN <<"es", "fr">> ELSE <<"es">>,
                       participants |-> {}]
                 ELSE NoMeeting]
         /\ seqDoc = [m \in Meetings |-> IF m \in created THEN 0 ELSE Absent]
    /\ translations = <<>>
    /\ InitRequests

\* Concurrent process-audio requests alone.
SpecAudio == InitServe /\ [][AudioNext]_vars

\* The store after two joins created the meetings, the second of which failed
\* between the write of the meeting document and the commit of the counter:
\* M2 has no sequence document.
InitAlloc ==
    /\ meetingDoc =
         [m \in Meetings |->
            [exists |-> TRUE,
             targetLanguages |-> IF m = "M1" THEN <<"es", "fr">> ELSE <<"es">>,
             participants |-> {}]]
    /\ seqDoc = [m \in Meetings |-> IF m = "M1" THEN 0 ELSE Absent]
    /\ translations = <<>>
    /\ InitRequests

\* Concurrent process-audio requests, with and without a counter document.
SpecAlloc == InitAlloc /\ [][AudioNext]_vars

\* Concurrent process-audio requests and a listener that follows the protocol.
ServeNext ==
    \/ \E r \in AudioReqs :
          \/ nAudio < MaxServed /\ PA_Request(r)
          \/ PA_TxnBody(r)
          \/ PA_Commit(r)
          \/ PA_Abort(r)
    \/ ListenNext

SpecServe == InitServe /\ [][ServeNext]_vars

\* One process-audio request at a time, and clients that register and fetch
\* with any sequence parameter.
FetchNext ==
    \/ \E r \in {"a1"} : PA_Request(r) \/ PA_TxnBody(r) \/ PA_Commit(r)
    \/ \E l \in Listeners : GT_Register(l) \/ GT_FetchAny(l) \/ GT_Poll(l)

SpecFetch == InitServe /\ [][FetchNext]_vars

SpecWorker == Init /\ [][WorkerNext]_vars

BrokerNext ==
    \/ \E m \in BrokerMeetings : W_Add(m) \/ W_Redeliver(m)
    \/ W_Tick
    \/ W_Drain

SpecBroker == InitServe /\ [][BrokerNext]_vars

\* The stream manager and its audio messages.
SpecStream == Init /\ [][SM_Process]_vars

\* The buffer under concurrent adds and drains.
SpecLock == Init /\ [][LockNext]_vars

\* The loop of the worker for the fragments of one meeting that exists, whose
\* language lookups, translations and publications succeed; a fragment
\* without a source language still raises.  The thread of process_loop keeps
\* running (it sleeps 0.1 s between two iterations, 1 s after an exception)
\* and the clock advances.
LoopNext ==
    \/ \E m \in BrokerMeetings : W_Add(m)
    \/ W_Tick
    \/ W_DrainUnfailing

SpecLoop ==
    /\ InitServe
    /\ [][LoopNext]_vars
    /\ WF_vars(W_Tick)
    /\ WF_vars(W_DrainUnfailing)

\* The worker and the messages it receives: those it buffers, for the first
\* time or again, and those it refuses.
SettleNext ==
    \/ \E m \in BrokerMeetings : W_Add(m) \/ W_Redeliver(m)
    \/ W_Nack
    \/ W_Tick
    \/ W_Drain

SpecSettle == Init /\ [][SettleNext]_vars

\* The worker with fragments of meetings that exist and of one that may not,
\* every message delivered once.
LookupNext ==
    \/ \E m \in Meetings : W_Add(m)
    \/ W_Tick
    \/ W_Drain

SpecLookup == InitServe /\ [][LookupNext]_vars

\* The client's retrieval loop against an endpoint that answers anything.
SpecClient == Init /\ [][ClientNext]_vars

\* The listening endpoint alone, with requests of every shape.
ParamsNext == \E l \in Listeners :
    GT_Invalid(l) \/ GT_Register(l) \/ GT_FetchAny(l) \/ GT_Poll(l)

SpecParams == InitServe /\ [][ParamsNext]_vars

\* Fetches with any sequence parameter while one fragment arrives.  The handler
\* of a fetch keeps running: its polling loop is not suspended for ever.
PollNext ==
    \/ \E r \in {"a1"} :
          \/ nAudio = 0 /\ PA_Request(r)
          \/ PA_TxnBody(r)
          \/ PA_Commit(r)
    \/ \E l \in Listeners : GT_FetchAny(l) \/ GT_Poll(l)

SpecPoll ==
    /\ InitServe
    /\ [][PollNext]_vars
    /\ \A l \in Listeners : WF_vars(GT_Poll(l))

\* Process-audio requests of every kind, one at a time.
ValidateNext == \E r \in {"a1"} :
    PA_Invalid(r) \/ PA_Request(r) \/ PA_TxnBody(r) \/ PA_Commit(r)

SpecValidate == InitServe /\ [][ValidateNext]_vars

\* Concurrent process-audio requests, with and without speech in the audio.
SpeechNext == \E r \in AudioReqs :
    \/ PA_NoSpeech(r)
    \/ nAudio < MaxServed /\ PA_Request(r)
    \/ PA_TxnBody(r)
    \/ PA_Commit(r)
    \/ PA_Abort(r)

SpecSpeech == InitServe /\ [][SpeechNext]_vars

\* The join specifications follow one meeting: the requests of the other
\* meeting touch none of its documents.
JoinMeetings == {"M1"}

\* One process-audio request at a time, for the meeting that is joined.
OneAudioNext == \E r \in {"a1"} :
    \/ /\ nAudio < MaxServed
       /\ PA_Request(r)
       /\ pa'[r].meeting \in JoinMeetings \/ paResp'.meeting \in JoinMeetings
    \/ PA_TxnBody(r)
    \/ PA_Commit(r)
    \/ PA_Abort(r)

\* The requests of join slot j.
JoinOf(j) ==
    \/ J_Invalid(j)
    \/ J_Request(j) /\ jn'[j].meeting \in JoinMeetings
    \/ J_CreateMeeting(j)
    \/ J_CreateCommit(j)
    \/ J_Update(j)
    \/ J_Fail(j)

\* The requests of join slot j that reach the store and find it working.
StoredJoinOf(j) ==
    \/ J_Request(j) /\ jn'[j].meeting \in JoinMeetings /\ ~jn'[j].raised
    \/ J_CreateMeeting(j)
    \/ J_CreateCommit(j)
    \/ J_Update(j)

\* Concurrent join requests, and process-audio requests, from the empty store.
SpecJoin == Init /\ [][(\E j \in Joiners : StoredJoinOf(j)) \/ OneAudioNext]_vars

\* Join requests one at a time, and process-audio requests.
SpecJoinSeq == Init /\ [][(\E j \in {"j1"} : JoinOf(j)) \/ OneAudioNext]_vars

(***************************************************************************)
(* Properties                                                              *)
(***************************************************************************)
IsPrefix(a, b) == Len(a) <= Len(b) /\ SubSeq(b, 1, Len(a)) = a

CounterValue(m) == IF seqDoc[m] = Absent THEN 0 ELSE seqDoc[m]

\* The records of a listener's meeting and language.
RecordsOf(g) ==
    {i \in 1..Len(translations) :
        /\ translations[i].meeting = g.meeting
        /\ translations[i].targetLanguage = g.lang}

\* The records a fetch of listener state g must select.
Qualifying(g) == {i \in RecordsOf(g) : translations[i].sequence > g.last}

\* Slot r commits its transaction in this step.
Commits(r) == pa[r].pc = "commit" /\ pa'[r].pc = "idle" /\ allocLog' # allocLog

\* The records this step adds to the store.
NewRecords == SubSeq(translations', Len(translations) + 1, Len(translations'))

\* C1: for every meeting, the sequences returned by the committed
\* allocations, in commit order, are strictly increasing (so no two
\* committed allocations return the same value), however the concurrent
\* process-audio requests interleave.
C1_AllocationsStrictlyIncreasing ==
    \A m \in Meetings :
        \A i, j \in 1..Len(allocLog[m]) :
            i < j => allocLog[m][i] < allocLog[m][j]

\* A request whose commit was refused once (another request's allocation
\* came in between) has committed its allocation on the second attempt.
C1_Witness ==
    /\ paResp.status = 200
    /\ paResp.attempts = 1
    /\ paResp.sequence = 2
    /\ allocLog[paResp.meeting] = <<1, 2>>

\* C2: a listener that registers and then always fetches with the cursor of
\* its previous response has received, at every moment, exactly the records
\* of its meeting and language with registration cursor < sequence <= current
\* cursor, each once and in ascending sequence order; and every record
\* committed after its registration that it has not received yet has a
\* sequence above its cursor, so the next fetch selects it: none is skipped.
C2_FaithfulListenerReceivesAllOnce ==
    \A l \in Listeners :
        gt[l].faithful =>
            LET g == gt[l]
                got == g.received
                cursor == g.resp.sequence
            IN  /\ \A a, b \in 1..Len(got) :
                      a < b => translations[got[a]].sequence
                                 < translations[got[b]].sequence
                /\ SeqToSet(got) =
                      {i \in RecordsOf(g) :
                          /\ translations[i].sequence > g.reg
                          /\ translations[i].sequence <= cursor}
                /\ \A i \in RecordsOf(g) :
                      i > g.regLen =>
                          \/ i \in SeqToSet(got)
                          \/ translations[i].sequence > cursor

\* A listener registered at cursor 0 has received two records in two
\* successive fetches.
C2_Witness ==
    \E l \in Listeners :
        /\ gt[l].faithful
        /\ gt[l].reg = 0
        /\ gt[l].nFetch = 3
        /\ gt[l].pc = "idle"
        /\ gt[l].resp.id = "concat"
        /\ gt[l].last = 1
        /\ Len(gt[l].received) = 2

\* C3: a fetch that finds data uses only records of the requested meeting
\* whose target language is the requested one and whose sequence is strictly
\* greater than the cursor sent, in ascending sequence order, and the cursor
\* it returns is the maximum sequence among them.
C3_FetchUsesOnlyNewerRecordsOfLanguage ==
    \A l \in Listeners :
        gt[l].resp.id = "concat" =>
            LET g == gt[l]
                used == g.resp.used
            IN  /\ used # <<>>
                /\ \A k \in 1..Len(used) :
                      /\ translations[used[k]].meeting = g.meeting
                      /\ translations[used[k]].targetLanguage = g.lang
                      /\ translations[used[k]].sequence > g.last
                      /\ translations[used[k]].sequence <= g.resp.sequence
                /\ \A a, b \in 1..Len(used) :
                      a < b => translations[used[a]].sequence
                                 <= translations[used[b]].sequence
                /\ \E k \in 1..Len(used) :
                      translations[used[k]].sequence = g.resp.sequence

\* A fetch with cursor 1 has returned two records while the store also holds
\* an older record of the same language and records of the other language.
C3_Witness ==
    \E l \in Listeners :
        /\ gt[l].resp.id = "concat"
        /\ gt[l].last = 1
        /\ Len(gt[l].resp.used) = 2
        /\ gt[l].resp.sequence = 3
        /\ \E i \in RecordsOf(gt[l]) : translations[i].sequence = 1
        /\ \E i \in 1..Len(translations) :
              /\ translations[i].meeting = gt[l].meeting
              /\ translations[i].targetLanguage # gt[l].lang

\* C4: a registration returns no stored record: its answer is the one empty
\* sentinel, with empty text, whose sequence is the meeting's counter value
\* at the time of the call (0 when the counter document is absent).
C4_RegistrationReturnsCounterOnly ==
    [][\A l \in Listeners :
         (gt'[l] # gt[l] /\ gt'[l].resp.id = "registration") =>
            /\ gt'[l].resp.status = 200
            /\ gt'[l].resp.empty
            /\ gt'[l].resp.translatedText = <<>>
            /\ gt'[l].resp.used = <<>>
            /\ gt'[l].resp.sequence =
                  (IF seqDoc[gt'[l].meeting] = Absent THEN 0
                   ELSE seqDoc[gt'[l].meeting])
      ]_vars

\* A registration answered with cursor 2 while the store holds records of the
\* listener's meeting and language.
C4_Witness ==
    \E l \in Listeners :
        /\ gt[l].resp.id = "registration"
        /\ gt[l].resp.sequence = 2
        /\ gt[l].resp.sequence = CounterValue(gt[l].meeting)
        /\ Cardinality(RecordsOf(gt[l])) = 2

\* C5 as stated: the text of a fetch that finds data is the texts of all the
\* qualifying records, as stored, joined with single spaces in ascending
\* sequence order.
C5_TextIsJoinOfStoredTexts ==
    [][\A l \in Listeners :
         (gt'[l] # gt[l] /\ gt'[l].resp.id = "concat") =>
            LET used == gt'[l].resp.used
            IN  gt'[l].resp.translatedText =
                   JoinSpace([k \in 1..Len(used) |->
                                 translations[used[k]].translatedText])
      ]_vars

\* C5 amended: the text is the texts of all the qualifying records, each
\* stripped of its leading and trailing whitespace, joined with single spaces
\* in ascending sequence order; every qualifying record is used exactly once.
C5_TextIsJoinOfStrippedTexts ==
    [][\A l \in Listeners :
         (gt'[l] # gt[l] /\ gt'[l].resp.id = "concat") =>
            LET used == gt'[l].resp.used
            IN  /\ SeqToSet(used) = Qualifying(gt[l])
                /\ Len(used) = Cardinality(Qualifying(gt[l]))
                /\ \A a, b \in 1..Len(used) :
                      a < b => translations[used[a]].sequence
                                 <= translations[used[b]].sequence
                /\ gt'[l].resp.translatedText =
                      JoinSpace([k \in 1..Len(used) |->
                                    Strip(translations[used[k]].translatedText)])
      ]_vars

\* A fetch has joined three records, one of which is stored with leading and
\* one with trailing whitespace.
C5_Witness ==
    \E l \in Listeners :
        /\ gt[l].resp.id = "concat"
        /\ Len(gt[l].resp.used) = 3
        /\ gt[l].resp.translatedText =
              <<"a", gt[l].lang, " ", "b", gt[l].lang, " ", "c", " ", gt[l].lang>>

\* C6: a fetch that ends without having found a record answers, once the
\* timeout has elapsed, the empty sentinel: empty flag set, empty text, no
\* record, and the cursor that was sent; it ends this way only when the last
\* poll found no record of the meeting and language above the cursor.  The
\* answer depends on the request alone, so repeating the fetch while no new
\* data arrives gives the same answer.
C6_EmptySentinelKeepsCursor ==
    [][\A l \in Listeners :
         (gt'[l] # gt[l] /\ gt'[l].resp.id = "empty") =>
            /\ Qualifying(gt[l]) = {}
            /\ gt'[l].elapsed >= TIMEOUT
            /\ gt'[l].resp =
                  [status |-> 200, id |-> "empty", translatedText |-> <<>>,
                   sourceLanguage |-> "", targetLanguage |-> gt[l].lang,
                   sequence |-> gt[l].last, empty |-> TRUE, used |-> <<>>]
      ]_vars

\* A fetch with cursor 2 has timed out while the store holds records of the
\* listener's meeting and language, none of them above the cursor.
C6_Witness ==
    \E l \in Listeners :
        /\ gt[l].pc = "idle"
        /\ gt[l].resp.id = "empty"
        /\ gt[l].last = 2
        /\ gt[l].resp.sequence = 2
        /\ Cardinality(RecordsOf(gt[l])) = 2
        /\ Qualifying(gt[l]) = {}

\* C7: a registration or a fetch step changes nothing in the store (meeting
\* documents, sequence counters, translation records); and no step of the
\* system removes or changes a stored record, so what a fetch with a given
\* cursor selects can only be extended by later records.
C7_FetchLeavesStoreUnchanged ==
    [][/\ gt' # gt => UNCHANGED storeVars
       /\ Len(translations') >= Len(translations)
       /\ \A i \in 1..Len(translations) : translations'[i] = translations[i]
       /\ \A m \in Meetings, lang \in TargetLanguages, c \in 0..MaxAudio :
             Matches(m, lang, c) \subseteq
                {i \in 1..Len(translations') :
                    /\ translations'[i].meeting = m
                    /\ translations'[i].targetLanguage = lang
                    /\ translations'[i].isComplete = TRUE
                    /\ translations'[i].sequence > c}
      ]_vars

\* A second fetch has returned two records, which are still in the store.
C7_Witness ==
    \E l \in Listeners :
        /\ gt[l].nFetch = 2
        /\ gt[l].resp.id = "concat"
        /\ Len(gt[l].resp.used) = 2
        /\ \A k \in 1..2 : gt[l].resp.used[k] \in Qualifying(gt[l])

\* C10 as stated: of two records of one meeting and language, the one whose
\* fragment was captured earlier has the smaller sequence, so that a fetch
\* returns their texts in capture order.
C10_CaptureOrderIsSequenceOrder ==
    \A i, j \in 1..Len(translations) :
        (/\ translations[i].meeting = translations[j].meeting
         /\ translations[i].targetLanguage = translations[j].targetLanguage
         /\ translations[i].ts < translations[j].ts)
            => translations[i].sequence < translations[j].sequence

\* The capture timestamps of a list of fragments, and their arrival ids.
TimestampsOf(frags) == [i \in 1..Len(frags) |-> frags[i].timestamp]

IdsOf(frags) == {frags[i].message_id : i \in 1..Len(frags)}

NonDecreasing(ts) == \A i, j \in 1..Len(ts) : i < j => ts[i] <= ts[j]

\* Every fragment in a meeting's heap has waited the window out.
AllReady(messages, current_time) ==
    \A k \in 1..Len(messages) :
        (current_time - messages[k].timestamp) >= BUFFER_TIME

\* C8: over any adds and drains, the fragments of a meeting are handed to
\* downstream processing in non-decreasing capture-timestamp order, also
\* across successive drains.
C8_HandedInTimestampOrder ==
    \A m \in Meetings : NonDecreasing(TimestampsOf(handed[m]))

\* C9: a drain returns each meeting's ready fragments in ascending timestamp
\* order, and when the window has elapsed for every buffered fragment of the
\* meeting it returns all of them, whatever order they arrived in.
C9_SingleDrainReleasesAscending ==
    [][handed' # handed =>
         \A m \in Meetings :
            /\ NonDecreasing(TimestampsOf(lastReady'[m]))
            /\ AllReady(buffer[m], now) =>
                   /\ Len(lastReady'[m]) = Len(buffer[m])
                   /\ IdsOf(lastReady'[m]) = IdsOf(buffer[m])
                   /\ buffer'[m] = <<>>]_vars

\* Three fragments that arrived in the order middle, lowest, highest were
\* returned by one drain as lowest, middle, highest.
C9_Witness ==
    \E m \in Meetings :
        /\ Len(lastReady[m]) = 3
        /\ TimestampsOf(lastReady[m]) = <<0, 1, 2>>
        /\ [i \in 1..3 |-> lastReady[m][i].message_id] = <<2, 1, 3>>

\* C11: the commit of one fragment's transaction allocates exactly one
\* sequence of its meeting and adds exactly one record for each target
\* language whose translation succeeded and none for any other language; all
\* these records carry the allocated sequence.  A request that ends without
\* committing allocates nothing and adds no record.
C11_OneSequenceOneRecordPerLanguage ==
    [][\A r \in AudioReqs :
          /\ Commits(r) =>
                LET p == pa[r]
                IN  /\ allocLog' = [allocLog EXCEPT ![p.meeting] = Append(@, p.next)]
                    /\ seqDoc'[p.meeting] = p.next
                    /\ \A lang \in TargetLanguages :
                          Cardinality({i \in 1..Len(NewRecords) :
                                         NewRecords[i].targetLanguage = lang})
                            = IF lang \in p.answered THEN 1 ELSE 0
                    /\ \A i \in 1..Len(NewRecords) :
                          /\ NewRecords[i].sequence = p.next
                          /\ NewRecords[i].meeting = p.meeting
                          /\ NewRecords[i].sourceText = p.text
          /\ (pa[r].pc = "commit" /\ pa'[r].pc = "idle" /\ ~Commits(r)) =>
                /\ paResp'.status = 500
                /\ UNCHANGED <<translations, allocLog, seqDoc>>]_vars

\* A fragment was stored for two languages under one sequence, and another
\* fragment of the same meeting for one language only.
C11_Witness ==
    \E i, j, k \in 1..Len(translations) :
        /\ translations[i].meeting = translations[j].meeting
        /\ translations[i].ts = translations[j].ts
        /\ translations[i].sequence = translations[j].sequence
        /\ translations[i].targetLanguage # translations[j].targetLanguage
        /\ translations[k].meeting = translations[i].meeting
        /\ translations[k].ts # translations[i].ts
        /\ \A n \in 1..Len(translations) :
              translations[n].ts = translations[k].ts => n = k

C13_SourceLanguageStoredUnmodified ==
    [][\A r \in AudioReqs :
          (Commits(r) /\ pa[r].src \in SeqToSet(pa[r].langs)) =>
             \E i \in 1..Len(NewRecords) :
                /\ NewRecords[i].targetLanguage = pa[r].src
                /\ NewRecords[i].translatedText = pa[r].text]_vars

\* C14 as stated: a sequence counter that exists keeps its value or is
\* raised by exactly 1 in every step, whatever join and process-audio
\* requests interleave.
C14_CounterNeverDecreases ==
    [][\A m \in Meetings :
          seqDoc[m] # Absent =>
             (seqDoc'[m] = seqDoc[m] \/ seqDoc'[m] = seqDoc[m] + 1)]_vars

\* C15 as stated: of two records of one meeting and language, the one
\* created later carries the larger sequence.
C15_RecordSequencesStrictlyIncreasing ==
    \A i, j \in 1..Len(translations) :
        (/\ i < j
         /\ translations[i].meeting = translations[j].meeting
         /\ translations[i].targetLanguage = translations[j].targetLanguage)
        => translations[i].sequence < translations[j].sequence

\* C16: the cursor a fetch returns is never below the cursor it was sent; it
\* is above it exactly when the response carries data, and equal to it
\* exactly when the response is the empty sentinel.
C16_ReturnedCursorNotBelowSupplied ==
    [][\A l \in Listeners :
          (gt[l].pc = "polling" /\ gt'[l].pc = "idle") =>
             LET resp == gt'[l].resp
                 cursor == gt[l].last
             IN  /\ resp.sequence >= cursor
                 /\ (resp.used # <<>>) <=> (resp.sequence > cursor)
                 /\ resp.empty <=> (resp.sequence = cursor)
                 /\ resp.empty <=> (resp.used = <<>>)]_vars

\* A fetch sent with cursor 1 came back with data and cursor 3.
C16_Witness ==
    \E l \in Listeners :
        /\ gt[l].pc = "idle"
        /\ gt[l].last = 1
        /\ gt[l].resp.used # <<>>
        /\ gt[l].resp.sequence = 3

\* C17 as stated: no step removes a language from a meeting's target
\* languages, and when a join is answered 200 its language is among the
\* meeting's target languages.
C17_TargetLanguagesOnlyGrow ==
    [][/\ \A m \in Meetings :
            SeqToSet(meetingDoc[m].targetLanguages)
               \subseteq SeqToSet(meetingDoc'[m].targetLanguages)
       /\ \A j \in Joiners :
            (jn[j].pc # "done" /\ jn'[j].pc = "done" /\ jn'[j].status = 200) =>
               jn'[j].lang \in SeqToSet(meetingDoc'[jn'[j].meeting].targetLanguages)
      ]_vars

\* C18: the join of a meeting that does not exist writes the meeting
\* document with the language as its only target language and the joiner as
\* its only participant, and sets the sequence counter to 0 when it is
\* answered; the join of an existing meeting leaves the target languages as
\* they were with the language added at the end if it was not among them,
\* adds the participant, and changes neither a sequence counter nor a record.
C18_JoinCreatesOrExtendsMeeting ==
    [][\A j \in Joiners :
          LET m == jn[j].meeting
              lang == jn[j].lang
              part == <<jn[j].pid, lang>>
          IN  /\ (jn[j].pc = "create" /\ jn'[j].pc = "commit") =>
                    /\ ~meetingDoc[m].exists
                    /\ meetingDoc' = [meetingDoc EXCEPT ![m] =
                                        [exists |-> TRUE,
                                         targetLanguages |-> <<lang>>,
                                         participants |-> {part}]]
                    /\ UNCHANGED <<seqDoc, translations>>
              /\ (jn[j].pc = "commit" /\ jn'[j].status = 200) =>
                    /\ seqDoc' = [seqDoc EXCEPT ![m] = 0]
                    /\ meetingDoc[m].targetLanguages = <<lang>>
                    /\ UNCHANGED <<meetingDoc, translations>>
              /\ (jn[j].pc = "update" /\ jn'[j].status = 200) =>
                    LET old == meetingDoc[m].targetLanguages
                        new == meetingDoc'[m].targetLanguages
                    IN  /\ meetingDoc[m].exists /\ meetingDoc'[m].exists
                        /\ new = IF lang \in SeqToSet(old) THEN old
                                 ELSE Append(old, lang)
                        /\ Cardinality(SeqToSet(new)) = Len(new)
                        /\ meetingDoc'[m].participants =
                              meetingDoc[m].participants \cup {part}
                        /\ \A x \in Meetings \ {m} : meetingDoc'[x] = meetingDoc[x]
                        /\ UNCHANGED <<seqDoc, translations>>]_vars

\* A meeting that holds records and whose counter is above 0 has been
\* joined in a second language, and once more in a language it already had.
C18_Witness ==
    \E j \in Joiners :
        /\ jn[j].pc = "done" /\ jn[j].status = 200
        /\ Len(meetingDoc[jn[j].meeting].targetLanguages) = 2
        /\ Cardinality(meetingDoc[jn[j].meeting].participants) = 3
        /\ seqDoc[jn[j].meeting] >= 1
        /\ translations # <<>>

C20_Witness404 ==
    /\ paResp.status = 404
    /\ ~meetingDoc[paResp.meeting].exists
    /\ seqDoc[paResp.meeting] = Absent

\* C21: a get-translations request with a missing or malformed field
\* (missing meetingCode or targetLanguage, or a sequence that is present but
\* not an integer, the empty string included) is answered with a 4xx status
\* and an error body, not with a 5xx.
C21_MalformedFetchAnswered4xx ==
    \A l \in Listeners :
        gt[l].resp.id = "error" =>
            /\ gt[l].resp.status >= 400
            /\ gt[l].resp.status < 500

\* The records of meeting m written for the fragment with sequence sq.
FragmentRecords(m, sq) ==
    {i \in 1..Len(translations) :
        translations[i].meeting = m /\ translations[i].sequence = sq}

\* C22: when the fragment with sequence s has a record in language X and none
\* in language Y (its translation to Y failed), a fetch for X after cursor
\* s-1 that finds only that record returns it alone, with sequence s; a fetch
\* for Y after cursor s-1 that finds nothing returns the empty sentinel with
\* the cursor s-1; and once later fragments have records in Y, the fetch for
\* Y after cursor s-1 returns all of them, with a cursor above s.
C22_PartialFailureLeavesGapForThatLanguageOnly ==
    [][\A l \in Listeners :
         (gt[l].pc = "polling" /\ gt'[l].pc = "idle") =>
            LET g == gt[l]
                s == g.last + 1
                here == FragmentRecords(g.meeting, s)
                mine == {i \in here : translations[i].targetLanguage = g.lang}
                resp == gt'[l].resp
            IN  /\ (Cardinality(mine) = 1 /\ Qualifying(g) = mine) =>
                      /\ resp.id = "concat"
                      /\ SeqToSet(resp.used) = mine
                      /\ Len(resp.used) = 1
                      /\ resp.sequence = s
                /\ (here # {} /\ mine = {} /\ Qualifying(g) = {}) =>
                      /\ resp.id = "empty"
                      /\ resp.empty
                      /\ resp.sequence = g.last
                /\ (here # {} /\ mine = {} /\ Qualifying(g) # {}) =>
                      /\ resp.id = "concat"
                      /\ SeqToSet(resp.used) = Qualifying(g)
                      /\ Len(resp.used) = Cardinality(Qualifying(g))
                      /\ resp.sequence > s
      ]_vars

\* A fetch after cursor 0 has returned a record with sequence 2 to a listener
\* whose language has no record for sequence 1, while the other language has.
C22_Witness ==
    \E l \in Listeners :
        /\ gt[l].pc = "idle"
        /\ gt[l].resp.id = "concat"
        /\ gt[l].last = 0
        /\ gt[l].resp.sequence = 2
        /\ FragmentRecords(gt[l].meeting, 1) # {}
        /\ \A i \in FragmentRecords(gt[l].meeting, 1) :
              translations[i].targetLanguage # gt[l].lang

C24_AllocationsAreConsecutiveFromOne ==
    [][\A r \in AudioReqs :
         Commits(r) =>
            LET m == pa[r].meeting
                v == IF seqDoc[m] = Absent THEN 0 ELSE seqDoc[m]
            IN  /\ pa[r].next = v + 1
                /\ seqDoc'[m] = v + 1
                /\ paResp'.sequence = v + 1
                /\ allocLog'[m] = [i \in 1..(Len(allocLog[m]) + 1) |-> i]
                /\ \A o \in Meetings \ {m} :
                      seqDoc'[o] = seqDoc[o] /\ allocLog'[o] = allocLog[o]
      ]_vars

\* The meeting without a counter document has had two committed allocations,
\* the second by a request whose first commit was refused, while the other
\* meeting has had one.
C24_Witness ==
    /\ allocLog["M2"] = <<1, 2>>
    /\ allocLog["M1"] = <<1>>
    /\ seqDoc["M2"] = 2
    /\ paResp.status = 200
    /\ paResp.meeting = "M2"
    /\ paResp.attempts = 1

\* C25: a commit always stores the allocated sequence in the counter, also
\* when every translation of the fragment failed and no record is written:
\* then the store holds no record with that sequence.  The counter is never
\* rolled back, so every later fragment is allocated a sequence above all
\* earlier allocations and above every stored record of the meeting, and a
\* listener receives the records of the fragments around the gap in
\* ascending sequence order.
C25_FailedFanoutKeepsAllocation ==
    [][/\ \A r \in AudioReqs :
            Commits(r) =>
               LET p == pa[r]
                   m == p.meeting
               IN  /\ seqDoc'[m] = p.next
                   /\ p.next = CounterValue(m) + 1
                   /\ \A k \in 1..Len(allocLog[m]) : allocLog[m][k] < p.next
                   /\ FragmentRecords(m, p.next) = {}
                   /\ NewRecords = p.writes
                   /\ p.writes = <<>> =>
                         /\ translations' = translations
                         /\ \A i \in 1..Len(translations') :
                               translations'[i].meeting = m =>
                                   translations'[i].sequence < p.next
       /\ \A m \in Meetings :
            seqDoc[m] # Absent => seqDoc'[m] # Absent /\ seqDoc'[m] >= seqDoc[m]
       /\ \A l \in Listeners :
            \A a, b \in 1..Len(gt'[l].received) :
               a < b => translations'[gt'[l].received[a]].sequence
                          < translations'[gt'[l].received[b]].sequence
      ]_vars

\* A listener of M1 that registered before any fragment has received the
\* record with sequence 2, while sequence 1 was allocated to a fragment none
\* of whose translations succeeded.
C25_Witness ==
    \E l \in Listeners :
        /\ gt[l].meeting = "M1"
        /\ gt[l].reg = 0
        /\ Len(gt[l].received) = 1
        /\ translations[gt[l].received[1]].sequence = 2
        /\ allocLog["M1"] = <<1, 2>>
        /\ FragmentRecords("M1", 1) = {}

\* C26: a transaction whose commit is refused on its last attempt ends the
\* call: the handler answers 500 without translations, keeps nothing of the
\* fragment to retry it, and changes neither the records nor the counter,
\* which holds the value of a committed allocation of a competing request,
\* not below the value this request had computed; no record of the fragment
\* is in the store.
C26_ExhaustedRetriesDropFragment ==
    [][\A r \in AudioReqs :
         (pa[r].pc = "commit" /\ pa'[r].pc = "idle" /\ ~Commits(r)) =>
            LET p == pa[r]
            IN  /\ p.stale
                /\ p.attempts + 1 = MaxAttempts
                /\ paResp'.status = 500
                /\ paResp'.ts = p.ts
                /\ paResp'.translations = <<>>
                /\ pa'[r] = PaIdle
                /\ UNCHANGED <<meetingDoc, seqDoc, translations, allocLog>>
                /\ seqDoc[p.meeting] >= p.next
                /\ \E k \in 1..Len(allocLog[p.meeting]) :
                      allocLog[p.meeting][k] = seqDoc[p.meeting]
                /\ \A i \in 1..Len(translations') : translations'[i].ts # p.ts
                /\ \A x \in AudioReqs : pa'[x].ts # p.ts
      ]_vars

\* A request has been answered 500 after its last attempt, whose translations
\* had succeeded, while two competing allocations of the meeting committed.
C26_Witness ==
    /\ paResp.status = 500
    /\ paResp.attempts = MaxAttempts
    /\ paResp.meeting = "M1"
    /\ allocLog["M1"] = <<1, 2>>
    /\ seqDoc["M1"] = 2
    /\ \A i \in 1..Len(translations) : translations[i].ts # paResp.ts
    /\ \E i \in 1..Len(translations) : translations[i].sequence = 2

\* The fragments of a list that carry message id.
Copies(frags, id) == {k \in 1..Len(frags) : frags[k].message_id = id}

\* The calls of translate_and_publish of meeting m for message id and topic
\* meeting-{m}-{lang}; Published: those that published.
CallsFor(m, id, lang) ==
    {c \in 1..Len(fanout[m]) :
        fanout[m][c].message_id = id /\ fanout[m][c].topic = <<m, lang>>}

Published(m, id, lang) == {c \in CallsFor(m, id, lang) : fanout[m][c].ok}

\* C27: the worker does not deduplicate.  Every delivery of a message, a
\* repeated one included, adds one fragment to the buffer of its meeting; a
\* drain hands on every fragment it takes from the buffer; and every fragment
\* handed on is fanned out, so that for every target language of the meeting
\* translate_and_publish has been called as many times for a message as
\* copies of it were handed on.  A message delivered twice is published
\* twice to every topic whose two calls succeed.
C27_WorkerDoesNotDeduplicate ==
    [][/\ nAdds' = nAdds + 1 =>
            \E m \in Meetings :
               /\ Len(buffer'[m]) = Len(buffer[m]) + 1
               /\ \A o \in Meetings \ {m} : buffer'[o] = buffer[o]
       /\ handed' # handed =>
            \A m \in Meetings :
               Len(buffer'[m]) + Len(handed'[m]) = Len(buffer[m]) + Len(handed[m])
       /\ \A m \in Meetings, id \in 1..MaxAdds :
            \A lang \in TargetLanguages :
               /\ Cardinality(CallsFor(m, id, lang)) =
                     Cardinality({k \in Copies(handed[m], id) :
                                    /\ lang \in SeqToSet(looked[m][k].langs)
                                    /\ SourceOf(id) # NoSourceLanguage})
               /\ \A c \in CallsFor(m, id, lang) :
                     fanout[m][c].translatedText =
                        IF lang = BaseLanguage(SourceOf(id))
                        THEN Transcript(id)
                        ELSE Translate(Transcript(id), lang)
      ]_vars

\* A message of M1 was delivered twice, and each of the two topics of the
\* meeting has received its translation twice.
C27_Witness ==
    \E id \in 1..MaxAdds :
        /\ Cardinality(Copies(handed["M1"], id)) = 2
        /\ \A lang \in SeqToSet(get_meeting_languages("M1", FALSE)) :
              Cardinality(Published("M1", id, lang)) = 2

\* C28: in the client retrieval loop at least 1 second elapses between the
\* starts of any two consecutive requests, whatever the outcome of the first
\* (successful response, non-200 response, timeout, transport error).
C28_OneSecondBetweenRequestStarts ==
    \A i \in 1..(Len(cl.log) - 1) :
        cl.log[i + 1].start - cl.log[i].start >= Seconds(RATE_LIMIT)

\* C29: the client retrieval loop retries after a request timeout (the
\* timeout does not end the loop), and after a 4xx response it does not send
\* the same unchanged request again.
C29_NoRetryOfUnchangedRequestAfter4xx ==
    /\ (cl.log # <<>> /\ cl.log[Len(cl.log)].kind = "timeout"
          /\ Len(cl.log) < MaxRequests) => ENABLED CL_Answered
    /\ \A i, j \in 1..Len(cl.log) :
          (/\ i < j
           /\ cl.log[i].kind = "answered"
           /\ cl.log[i].status >= 400
           /\ cl.log[i].status < 500) =>
              cl.log[j].request # cl.log[i].request

\* C30: a drain at time now releases, for every meeting, exactly the buffered
\* fragments with now - timestamp >= BUFFER_TIME: every released fragment
\* satisfies the condition, no fragment left in the buffer does, and so every
\* released fragment is older than every fragment left; the fragments left
\* are those of the buffer, unchanged, and no other step removes a fragment.
\* The timestamp of a fragment that came without one is 0.
C30_DrainReleasesExactlyTheReady ==
    [][/\ handed' # handed =>
            \A m \in Meetings :
               LET released == lastReady'[m]
                   left == buffer'[m]
               IN  /\ handed'[m] = handed[m] \o released
                   /\ \A k \in 1..Len(released) :
                         now - released[k].timestamp >= BUFFER_TIME
                   /\ \A k \in 1..Len(left) :
                         now - left[k].timestamp < BUFFER_TIME
                   /\ \A a \in 1..Len(released), b \in 1..Len(left) :
                         released[a].timestamp < left[b].timestamp
                   /\ Len(released) + Len(left) = Len(buffer[m])
                   /\ SeqToSet(released) \cup SeqToSet(left) = SeqToSet(buffer[m])
       /\ handed' = handed =>
            \A m \in Meetings : SeqToSet(buffer[m]) \subseteq SeqToSet(buffer'[m])
       /\ \A m \in Meetings :
            \A k \in 1..Len(buffer'[m]) :
               buffer'[m][k].timestamp =
                  IF buffer'[m][k].raw = Absent THEN 0 ELSE buffer'[m][k].raw
      ]_vars

\* A drain at time 1 has released a fragment that came without a timestamp
\* and a fragment with timestamp 0, and has left a fragment with timestamp 1.
C30_Witness ==
    \E m \in Meetings :
        /\ now = 1
        /\ Len(lastReady[m]) = 2
        /\ handed[m] = lastReady[m]
        /\ \E k \in 1..2 : lastReady[m][k].raw = Absent
        /\ \E k \in 1..2 : lastReady[m][k].raw = 0
        /\ Len(buffer[m]) = 1
        /\ buffer[m][1].timestamp = 1

\* C31: fragments of one meeting with identical timestamps are handed on in
\* the order in which they arrived (message ids are given in arrival order).
C31_TiesReleasedInArrivalOrder ==
    \A m \in Meetings :
        \A a, b \in 1..Len(handed[m]) :
            (a < b /\ handed[m][a].timestamp = handed[m][b].timestamp) =>
                handed[m][a].message_id < handed[m][b].message_id

\* C33 as stated, for the records: every stored translation record carries a
\* sequence between 1 and the current value of its meeting's counter.
C33_RecordSequencesWithinCounter ==
    \A i \in 1..Len(translations) :
        /\ 1 <= translations[i].sequence
        /\ translations[i].sequence <= CounterValue(translations[i].meeting)

\* C34 as stated: in the response of a request whose transaction commits,
\* translations_generated and the length of the translations list are the
\* number of records the commit stores, and the list holds one entry per
\* stored record, of its language, however often the body was run.
C34_ResponseCountsCommittedRecords ==
    [][\A r \in AudioReqs :
          Commits(r) =>
             /\ paResp'.generated = Len(NewRecords)
             /\ Len(paResp'.translations) = Len(NewRecords)
             /\ \A i \in 1..Len(NewRecords) :
                   paResp'.translations[i].targetLanguage =
                       NewRecords[i].targetLanguage]_vars

\* C38: a process-audio request whose audio yields no recognition result is
\* answered 200 with an empty transcription and an empty translations list;
\* it allocates no sequence and writes no record, opens no transaction and
\* leaves the store as it was, whether or not its meeting exists.
C38_NoSpeechAnswersEmptyAndWritesNothing ==
    [][(nAudio' = nAudio + 1 /\ paResp'.ts = nAudio + 1 /\ paResp'.results = 0) =>
          /\ paResp'.status = 200
          /\ paResp'.transcription = <<>>
          /\ paResp'.translations = <<>>
          /\ paResp'.sequence = 0
          /\ UNCHANGED <<meetingDoc, seqDoc, translations, allocLog, pa>>]_vars

\* A request without speech for a meeting that does not exist was answered
\* 200, after a fragment of another meeting was stored.
C38_Witness ==
    /\ paResp.results = 0
    /\ paResp.status = 200
    /\ paResp.meeting \in Meetings
    /\ ~meetingDoc[paResp.meeting].exists
    /\ translations # <<>>

\* The fragments of meeting m handed on whose meeting did not exist when the
\* languages were looked up, or whose lookup failed.
Unlooked(m) ==
    {k \in 1..Len(handed[m]) : looked[m][k].raised \/ ~meetingDoc[m].exists}

\* C39: a released fragment whose meeting does not exist, or whose language
\* lookup fails, finds no target language, so translate_and_publish is not
\* called for it and nothing is published to any topic; the fragment has
\* left the buffer and is not put back; its message was acked, once, when it
\* was buffered, and never nacked.
C39_UnlookedFragmentIsDropped ==
    /\ \A m \in Meetings : Len(looked[m]) = Len(handed[m])
    /\ \A m \in Meetings :
          \A k \in Unlooked(m) :
             LET id == handed[m][k].message_id
             IN  /\ looked[m][k].message_id = id
                 /\ looked[m][k].langs = <<>>
                 /\ \A m2 \in Meetings :
                       /\ \A c \in 1..Len(fanout[m2]) : fanout[m2][c].message_id # id
                       /\ \A b \in 1..Len(buffer[m2]) : buffer[m2][b].message_id # id
                 /\ Cardinality({i \in 1..Len(settled) :
                                    settled[i].message_id = id}) = 1
                 /\ \A i \in 1..Len(settled) :
                       settled[i].message_id = id => settled[i].outcome = "ack"

\* A fragment of M1 was dropped because its lookup failed, a fragment of M2
\* because M2 does not exist, and another fragment of M1 was published.
C39_Witness ==
    /\ ~meetingDoc["M2"].exists
    /\ handed["M2"] # <<>>
    /\ \E k \in 1..Len(handed["M1"]) : looked["M1"][k].raised
    /\ \E c \in 1..Len(fanout["M1"]) : fanout["M1"][c].ok

\* The entries of message message_id in the heaps and in what was handed on.
Buffered(message_id) ==
    {e \in Meetings \X {"buffer", "handed"} \X (1..MaxAdds) :
        LET entries == IF e[2] = "buffer" THEN buffer[e[1]] ELSE handed[e[1]]
        IN  e[3] <= Len(entries) /\ entries[e[3]].message_id = message_id}

\* The settlements of message message_id with the given outcome.
Settlements(message_id, outcome) ==
    {i \in 1..Len(settled) :
        settled[i].message_id = message_id /\ settled[i].outcome = outcome}

\* C35, in every state: every message received has been settled, the number
\* of settlements being the number of messages received; a message has as
\* many acks as fragments of it were added to the buffer; and a message that
\* was nacked (unparsable, without meetingCode, or with a timestamp that is
\* no number) is nowhere in the buffer and was never handed on.
C35_AckedIffBuffered ==
    /\ Len(settled) = nAdds
    /\ \A id \in 1..MaxAdds :
          /\ Cardinality(Settlements(id, "ack")) = Cardinality(Buffered(id))
          /\ Settlements(id, "nack") # {} => Buffered(id) = {}

\* C35, in every step: the receipt of a message settles it once, with an ack
\* when the step pushed a fragment on a heap and with a nack when it left the
\* heaps alone; no other step settles anything.
C35_EveryMessageSettledOnce ==
    [][/\ nAdds' = nAdds =>
            settled' = settled
       /\ nAdds' # nAdds =>
            /\ nAdds' = nAdds + 1
            /\ Len(settled') = Len(settled) + 1
            /\ SubSeq(settled', 1, Len(settled)) = settled
            /\ LET last == settled'[Len(settled')]
               IN  IF last.outcome = "ack"
                   THEN \E m \in Meetings :
                           /\ Len(buffer'[m]) = Len(buffer[m]) + 1
                           /\ \E at \in 1..Len(buffer'[m]) :
                                 buffer'[m][at].message_id = last.message_id
                   ELSE /\ last.outcome = "nack"
                        /\ buffer' = buffer
       /\ C35_AckedIffBuffered']_vars

\* A message without meetingCode and an unparsable one were nacked, and a
\* message that was acked has been handed on.
C35_Witness ==
    /\ \E i \in 1..Len(settled) : settled[i].reason = "no meetingCode"
    /\ \E i \in 1..Len(settled) : settled[i].reason = "unparsable"
    /\ \E i \in 1..Len(settled) :
          /\ settled[i].outcome = "ack"
          /\ \E m \in Meetings : \E k \in 1..Len(handed[m]) :
                handed[m][k].message_id = settled[i].message_id

\* The calls of translate_and_publish this step adds for meeting m.
NewCalls(m) == SubSeq(fanout'[m], Len(fanout[m]) + 1, Len(fanout'[m]))

\* This step hands fragment k of the ready list of meeting m to
\* _process_buffered_message, and the call for each language found is made,
\* unless the fragment has no source language, which raises before any call.
ProcessedInDrain(m, k) ==
    LET id == lastReady'[m][k].message_id
        langs == looked'[m][Len(handed[m]) + k].langs
    IN  /\ handed'[m][Len(handed[m]) + k] = lastReady'[m][k]
        /\ \A lang \in TargetLanguages :
              Cardinality({c \in 1..Len(NewCalls(m)) :
                             /\ NewCalls(m)[c].message_id = id
                             /\ NewCalls(m)[c].topic = <<m, lang>>})
              = IF lang \in SeqToSet(langs) /\ SourceOf(id) # NoSourceLanguage
                THEN Cardinality({j \in 1..Len(lastReady'[m]) :
                                     lastReady'[m][j].message_id = id})
                ELSE 0

\* C37: every fragment in the buffer is eventually handed to the fanout, as
\* long as the loop runs and the clock advances; and in every drain each
\* released fragment is processed, whether or not another fragment of the
\* same drain raised an exception.
C37_BufferedFragmentsEventuallyHandedOn ==
    /\ [][handed' # handed =>
             \A m \in Meetings : \A k \in 1..Len(lastReady'[m]) :
                ProcessedInDrain(m, k)]_vars
    /\ \A id \in 1..MaxAdds :
          (\E m \in Meetings : \E b \in 1..Len(buffer[m]) :
              buffer[m][b].message_id = id)
             ~> (\E m \in Meetings : \E k \in 1..Len(handed[m]) :
                    handed[m][k].message_id = id)

\* One drain released a fragment without source language, whose processing
\* raised, and after it a fragment that was published to both topics.
C37_Witness ==
    \E k1, k2 \in 1..Len(lastReady["M1"]) :
        /\ k1 < k2
        /\ SourceOf(lastReady["M1"][k1].message_id) = NoSourceLanguage
        /\ \A lang \in {"es", "fr"} :
              Published("M1", lastReady["M1"][k2].message_id, lang) # {}

\* The threads that are inside `with self.lock`.
InLock ==
    {p \in Producers : lk.prod[p].pc = "locked"}
    \cup (IF lk.drain.pc = "locked" THEN {Drainer} ELSE {})

\* The fragments a callback thread has received and not yet pushed.
Pending(message_id) ==
    {p \in Producers :
        lk.prod[p].item # <<>> /\ lk.prod[p].item[1].message_id = message_id}

\* C32: under every interleaving of the adds of the producers and the drains
\* of the loop, at most one thread is inside the lock, whatever heap it works
\* on, and the heaps it read on entering are still the heaps of the buffer;
\* every fragment received is in the hands of its producer, in a heap or in
\* what the drains returned, exactly once, and every fragment whose add has
\* finished is in a heap or was returned by a drain, exactly once.
C32_AddAndDrainExcludeEachOther ==
    /\ Cardinality(InLock) <= 1
    /\ InLock = IF lk.holder = "" THEN {} ELSE {lk.holder}
    /\ lk.drain.pc = "locked" => lk.drain.heaps = buffer
    /\ \A p \in Producers :
          lk.prod[p].pc = "locked" => lk.prod[p].messages = buffer[lk.prod[p].meeting]
    /\ \A id \in 1..MaxAdds :
          /\ id <= nAdds =>
                Cardinality(Pending(id)) + Cardinality(Buffered(id)) = 1
          /\ id > nAdds => Pending(id) = {} /\ Buffered(id) = {}
          /\ Cardinality(Settlements(id, "ack")) = Cardinality(Buffered(id))

\* Both producers wait for the lock while the drain holds it, after a drain
\* has returned a fragment.
C32_Witness ==
    /\ lk.holder = Drainer
    /\ \A p \in Producers : lk.prod[p].pc = "waiting"
    /\ \E m \in Meetings : handed[m] # <<>>

\* The results of the last audio message that are final and not blank.
FinalTranscripts ==
    {i \in 1..Len(sm.last.results) :
        sm.last.results[i].is_final /\ ~sm.last.results[i].blank}

\* C36: an audio message is acked exactly when its attributes were present,
\* neither the recognizer nor the publisher failed, and there was a final
\* transcript; then all its final transcripts were published and returned.
\* It is nacked otherwise: without a call of the recognizer and without any
\* publication when meetingCode or sourceLanguage is missing, and also when
\* the publisher failed after some transcripts had been published.
C36_AckedIffTranscriptsPublished ==
    sm.count > 0 =>
       LET last == sm.last
       IN  /\ last.outcome \in {"ack", "nack"}
           /\ last.outcome = "ack" <=>
                 /\ last.missing = {}
                 /\ ~last.raised
                 /\ last.fail_at = 0
                 /\ FinalTranscripts # {}
           /\ last.outcome = "ack" <=> (last.returned /\ last.published # <<>>)
           /\ last.outcome = "ack" =>
                 /\ {last.published[k].transcript : k \in 1..Len(last.published)}
                       = FinalTranscripts
                 /\ Len(last.published) = Cardinality(FinalTranscripts)
                 /\ \A k \in 1..(Len(last.published) - 1) :
                       last.published[k].start_time <= last.published[k + 1].start_time
           /\ last.missing # {} => ~last.called /\ last.published = <<>>
           /\ (last.raised \/ last.fail_at # 0 \/ FinalTranscripts = {}) =>
                 last.outcome = "nack"
           /\ last.fail_at # 0 => Len(last.published) = last.fail_at - 1

\* An audio message was nacked after one of its two transcripts had been
\* published.
C36_Witness ==
    /\ sm.last.outcome = "nack"
    /\ sm.last.fail_at = 2
    /\ Len(sm.last.published) = 1

=============================================================================
